---- MODULE Spec2Model ----
(***************************************************************************)
(* Release notes service (rna): the Release and Note models of             *)
(* rna/models.py over their database tables, and the copy of releases of   *)
(* rna/admin.py.                                                           *)
(*                                                                         *)
(* A character string of the program (a version, a note body) is a         *)
(* sequence of one-character strings, so that prefixes, splitting on '.'   *)
(* and ordering are computed character by character.  Short strings that   *)
(* are only compared for equality (product, channel, tag) stay strings.    *)
(* A row of a table is identified by its primary key, its position in the  *)
(* table; the absent value None is 0 wherever a key is expected.           *)
(*                                                                         *)
(* The notes of a release are read through the table of the links, with    *)
(* no ORDER BY or with one on sort_num alone, so the database decides the  *)
(* order of the notes, of those of equal sort_num in the second case: it   *)
(* is the order of the plan the database chooses for the query.  A plan    *)
(* goes through the rows of the links, in the order they were inserted     *)
(* in, or through the rows of the notes, in the order of their keys, and   *)
(* which one is chosen depends on the statistics the database has          *)
(* gathered, not on what is stored.  Every query takes its plan as a       *)
(* parameter, which the actions choose freely.  The table of the links is  *)
(* a sequence for this, and the initial states hold links inserted in and  *)
(* against the order of the keys of the notes.                             *)
(***************************************************************************)
EXTENDS Integers, Sequences, FiniteSets, TLC

VARIABLES
    rna_release,        \* table of Release rows, indexed by primary key
    rna_note,           \* table of Note rows, indexed by primary key
    rna_note_releases,  \* rows <<note id, release id>> of Note.releases,
                        \* in the order they were inserted in
    DEV,                \* settings.DEV
    requests,           \* the copy_releases requests that are running
    call,               \* the last call made and its arguments
    ret                 \* what that call returned

vars == <<rna_release, rna_note, rna_note_releases, DEV, requests, call, ret>>

None == 0

(***************************************************************************)
(* Strings                                                                 *)
(***************************************************************************)

\* code point of a character: how the program's string comparison orders it
Ord(c) ==
    CASE c = " " -> 32
      [] c = "-" -> 45
      [] c = "." -> 46
      [] c = "0" -> 48
      [] c = "1" -> 49
      [] c = "2" -> 50
      [] c = "3" -> 51
      [] c = "4" -> 52
      [] c = "5" -> 53
      [] c = "6" -> 54
      [] c = "7" -> 55
      [] c = "8" -> 56
      [] c = "9" -> 57
      [] c = "c" -> 99
      [] c = "o" -> 111
      [] c = "p" -> 112
      [] c = "x" -> 120
      [] c = "y" -> 121

\* a < b for two strings: the first differing character decides, and a
\* proper prefix is smaller
StrLess(a, b) ==
    LET differ == {i \in 1..Len(a) : i > Len(b) \/ a[i] # b[i]}
        first == CHOOSE i \in differ : \A j \in differ : i <= j
    IN  IF differ = {} THEN Len(a) < Len(b)
        ELSE first <= Len(b) /\ Ord(a[first]) < Ord(b[first])

\* s.startswith(prefix)
startswith(s, prefix) ==
    /\ Len(prefix) <= Len(s)
    /\ SubSeq(s, 1, Len(prefix)) = prefix

\* s.split('.', 1): s cut at its first dot, or s alone when it has none
split_1(s) ==
    IF \E i \in 1..Len(s) : s[i] = "."
    THEN LET i == CHOOSE k \in 1..Len(s) :
                      s[k] = "." /\ \A j \in 1..(k - 1) : s[j] # "."
         IN  <<SubSeq(s, 1, i - 1), SubSeq(s, i + 1, Len(s))>>
    ELSE <<s>>

\* s.split('.'): the segments between the dots, at least one
RECURSIVE split(_)
split(s) ==
    IF Len(split_1(s)) = 1 THEN <<s>>
    ELSE <<split_1(s)[1]>> \o split(split_1(s)[2])

(***************************************************************************)
(* sorted(seq, key=..., reverse=reverse): a stable sort.  keys[i] is the   *)
(* key of seq[i], and the keys are strings when str holds and integers     *)
(* otherwise (False is 0 and True is 1).  The element whose key comes      *)
(* first in the asked direction goes first, and elements of equal keys     *)
(* keep the order they had in seq, with reverse=True as well.              *)
(* SubSeq(f, 1, n) is f as a sequence.                                     *)
(***************************************************************************)
KeyLess(a, b, str) == IF str THEN StrLess(a, b) ELSE a < b

sorted(seq, keys, str, reverse) ==
    LET n == Len(seq)
        ks == SubSeq(keys, 1, n)
        place == SubSeq([i \in 1..n |->
                     1 + Cardinality({j \in 1..n :
                            \/ IF reverse THEN KeyLess(ks[i], ks[j], str)
                                          ELSE KeyLess(ks[j], ks[i], str)
                            \/ ks[i] = ks[j] /\ j < i})], 1, n)
    IN  SubSeq([k \in 1..n |-> seq[CHOOSE i \in 1..n : place[i] = k]], 1, n)

Range(seq) == {seq[i] : i \in 1..Len(seq)}

\* every order a set of rows can come in
Orders(S) ==
    {f \in [1..Cardinality(S) -> S] :
        \A i, j \in 1..Cardinality(S) : f[i] = f[j] => i = j}

\* the elements of a finite set of integers in ascending order
RECURSIVE Ascending(_)
Ascending(S) ==
    IF S = {} THEN <<>>
    ELSE LET m == CHOOSE x \in S : \A y \in S : x <= y
         IN  <<m>> \o Ascending(S \ {m})

(***************************************************************************)
(* Note                                                                    *)
(***************************************************************************)

TAGS == <<"New", "Changed", "HTML5", "Feature", "Language", "Developer",
          "Fixed">>

\* an untagged note given the place after the last tag
tag_index_get_last(tag) ==
    IF \E i \in 1..Len(TAGS) : TAGS[i] = tag
    THEN (CHOOSE i \in 1..Len(TAGS) : TAGS[i] = tag) - 1
    ELSE Len(TAGS)

\* tag_index.get(tag, 0) where tag_index maps each tag of TAGS to its
\* position, counted from 0
tag_index_get(tag) ==
    IF \E i \in 1..Len(TAGS) : TAGS[i] = tag
    THEN (CHOOSE i \in 1..Len(TAGS) : TAGS[i] = tag) - 1
    ELSE 0

\* the comparison with the release turned round
is_known_issue_for_fixed(n, release) ==
    n.is_known_issue /\ n.fixed_in_release = release

\* the release the issue was fixed in ignored
is_known_issue_for_any(n, release) ==
    n.is_known_issue

\* Note.is_known_issue_for, of the note row n and the release key
is_known_issue_for(n, release) ==
    n.is_known_issue /\ n.fixed_in_release # release

(***************************************************************************)
(* Release.notes                                                           *)
(***************************************************************************)

\* the plans of a query for the notes of a release: through the rows of
\* the links or through the rows of the notes
Plans == {"links", "notes"}

\* the keys of the notes linked to the release in the stored state d, in
\* the order the plan comes to them: the rows of the links of the release
\* in their order, or the rows of the notes in the order of their keys,
\* those that have a link to the release
plan_rows(d, release, plan) ==
    IF plan = "links"
    THEN LET rows == SelectSeq(d.links, LAMBDA l : l[2] = release)
         IN  SubSeq([i \in 1..Len(rows) |-> rows[i][1]], 1, Len(rows))
    ELSE LET linked == {l[1] : l \in {r \in Range(d.links) : r[2] = release}}
         IN  SelectSeq(SubSeq([n \in 1..Len(d.note) |-> n], 1, Len(d.note)),
                       LAMBDA n : n \in linked)

\* release.note_set.all(): the keys of the notes linked to the release, in
\* the order of the plan of the query
note_set(release, plan) ==
    plan_rows([note |-> rna_note, links |-> rna_note_releases], release, plan)

\* release.note_set.order_by('-sort_num'): one query, the rows of equal
\* sort_num in the order of its plan
order_by_sort_num_desc(release, plan) ==
    LET ns == note_set(release, plan)
    IN  sorted(ns, [i \in 1..Len(ns) |-> rna_note[ns[i]].sort_num],
               FALSE, TRUE)

\* .filter(is_public=True)
filter_is_public(ns) ==
    SelectSeq(ns, LAMBDA n : rna_note[n].is_public)

\* the version matched as the whole first word of the note
is_dot_fix_word(n, release) ==
    LET body == rna_note[n].note
        version == rna_release[release].version
    IN  /\ rna_note[n].tag = "Fixed"
        /\ startswith(body, version)
        /\ Len(body) = Len(version) \/ body[Len(version) + 1] = " "

\* the key of the last sort: a fixed note that starts with the version
is_dot_fix(n, release) ==
    /\ rna_note[n].tag = "Fixed"
    /\ startswith(rna_note[n].note, rna_release[release].version)

\* public_only ignored
notes_queryset_all(self, public_only, plan) ==
    order_by_sort_num_desc(self, plan)

\* the notes the method partitions: the rows of its one query
notes_queryset(self, public_only, plan) ==
    IF public_only
    THEN filter_is_public(order_by_sort_num_desc(self, plan))
    ELSE order_by_sort_num_desc(self, plan)

\* the inner sort: by the place of the tag in TAGS
sorted_by_tag(ns) ==
    sorted(ns, [i \in 1..Len(ns) |-> tag_index_get(rna_note[ns[i]].tag)],
           FALSE, FALSE)

\* the known issues sorted by tag as the new features are
notes_known_issues_by_tag(notes, self) ==
    sorted_by_tag(
        SelectSeq(notes, LAMBDA n : is_known_issue_for(rna_note[n], self)))

\* known_issues = [n for n in notes if n.is_known_issue_for(self)], of the
\* rows notes of the query
notes_known_issues(notes, self) ==
    SelectSeq(notes, LAMBDA n : is_known_issue_for(rna_note[n], self))

Reversed(seq) == [i \in 1..Len(seq) |-> seq[Len(seq) + 1 - i]]

\* the ascending sort turned round, which turns equal keys round too
sorted_dot_fixes_first_reversed(ns, self) ==
    Reversed(
        sorted(ns,
               [i \in 1..Len(ns) |-> IF is_dot_fix(ns[i], self) THEN 1 ELSE 0],
               FALSE, FALSE))

\* the outer sort, reverse=True: True before False
sorted_dot_fixes_first(ns, self) ==
    sorted(ns,
           [i \in 1..Len(ns) |-> IF is_dot_fix(ns[i], self) THEN 1 ELSE 0],
           FALSE, TRUE)

\* new_features = sorted(sorted(n for n in notes if not ...)), of the rows
\* notes of the query
notes_new_features(notes, self) ==
    sorted_dot_fixes_first(
        sorted_by_tag(
            SelectSeq(notes,
                      LAMBDA n : ~is_known_issue_for(rna_note[n], self))),
        self)

\* Release.notes(public_only), its query run by the plan; rows is what the
\* query returned
Notes(self, public_only, plan) ==
    /\ \E notes \in {notes_queryset(self, public_only, plan)} :
           /\ call' = [op |-> "notes", self |-> self,
                       public_only |-> public_only, rows |-> notes]
           /\ ret' = [new_features |-> notes_new_features(notes, self),
                      known_issues |-> notes_known_issues(notes, self)]
    /\ UNCHANGED <<rna_release, rna_note, rna_note_releases, DEV, requests>>

\* Note.is_known_issue_for(release) on a stored note
IsKnownIssueFor(n, release) ==
    /\ call' = [op |-> "is_known_issue_for", note |-> n, release |-> release]
    /\ ret' = is_known_issue_for(rna_note[n], release)
    /\ UNCHANGED <<rna_release, rna_note, rna_note_releases, DEV, requests>>

(***************************************************************************)
(* Release.major_version and Release.get_bug_search_url.  A URL is a       *)
(* sequence of strings: the literal parts of a template are one string     *)
(* each, and a version put into it is there character by character.        *)
(***************************************************************************)

\* the version cut at its last dot
major_version_rsplit(version) ==
    IF \E i \in 1..Len(version) : version[i] = "."
    THEN LET i == CHOOSE k \in 1..Len(version) :
                      /\ version[k] = "."
                      /\ \A j \in (k + 1)..Len(version) : version[j] # "."
         IN  SubSeq(version, 1, i - 1)
    ELSE version

\* Release.major_version, of a version
major_version(version) == split_1(version)[1]

\* the template of the Thunderbird searches; "{version}" is its field
thunderbird_template ==
    << "https://bugzilla.mozilla.org/buglist.cgi?classification=Client%20Software&query_format=advanced&bug_status=RESOLVED&bug_status=VERIFIED&bug_status=CLOSED&target_milestone=Thunderbird%20",
       "{version}",
       ".0&product=Thunderbird&resolution=FIXED" >>

\* the template of the searches of every other product
firefox_template ==
    << "https://bugzilla.mozilla.org/buglist.cgi?j_top=OR&f1=target_milestone&o3=equals&v3=Firefox%20",
       "{version}",
       "&o1=equals&resolution=FIXED&o2=anyexact&query_format=advanced&f3=target_milestone&f2=cf_status_firefox",
       "{version}",
       "&bug_status=RESOLVED&bug_status=VERIFIED&bug_status=CLOSED&v1=mozilla",
       "{version}",
       "&v2=fixed%2Cverified&limit=0" >>

\* template.format(version=version)
RECURSIVE format(_, _)
format(template, version) ==
    IF template = <<>> THEN <<>>
    ELSE (IF Head(template) = "{version}" THEN version
          ELSE <<Head(template)>>)
         \o format(Tail(template), version)

\* the whole version put into the template
get_bug_search_url_full_version(self) ==
    IF rna_release[self].bug_search_url # <<>>
    THEN rna_release[self].bug_search_url
    ELSE IF rna_release[self].product = "Thunderbird"
         THEN format(thunderbird_template, rna_release[self].version)
         ELSE format(firefox_template, rna_release[self].version)

\* Release.get_bug_search_url
get_bug_search_url(self) ==
    IF rna_release[self].bug_search_url # <<>>
    THEN rna_release[self].bug_search_url
    ELSE IF rna_release[self].product = "Thunderbird"
         THEN format(thunderbird_template,
                     major_version(rna_release[self].version))
         ELSE format(firefox_template,
                     major_version(rna_release[self].version))

MajorVersion(self) ==
    /\ call' = [op |-> "major_version", self |-> self]
    /\ ret' = major_version(rna_release[self].version)
    /\ UNCHANGED <<rna_release, rna_note, rna_note_releases, DEV, requests>>

GetBugSearchUrl(self) ==
    /\ call' = [op |-> "get_bug_search_url", self |-> self]
    /\ ret' = get_bug_search_url(self)
    /\ UNCHANGED <<rna_release, rna_note, rna_note_releases, DEV, requests>>

(***************************************************************************)
(* Release.equivalent_release_for_product                                  *)
(***************************************************************************)

\* the prefix is the major version alone, without the dot
filter_version_channel_product_no_dot(self, product) ==
    LET prefix == major_version(rna_release[self].version)
    IN  {r \in 1..Len(rna_release) :
            /\ startswith(rna_release[r].version, prefix)
            /\ rna_release[r].channel = rna_release[self].channel
            /\ rna_release[r].product = product}

\* the channel of the caller left out of the filter
filter_version_product(self, product) ==
    LET prefix == major_version(rna_release[self].version) \o <<".">>
    IN  {r \in 1..Len(rna_release) :
            /\ startswith(rna_release[r].version, prefix)
            /\ rna_release[r].product = product}

\* the major version and the dot looked for anywhere in the version
filter_version_contains(self, product) ==
    LET prefix == major_version(rna_release[self].version) \o <<".">>
    IN  {r \in 1..Len(rna_release) :
            /\ \E k \in 0..Len(rna_release[r].version) :
                   startswith(SubSeq(rna_release[r].version, k + 1,
                                     Len(rna_release[r].version)), prefix)
            /\ rna_release[r].channel = rna_release[self].channel
            /\ rna_release[r].product = product}

\* _default_manager.filter(version__startswith=self.major_version() + '.',
\*                         channel=self.channel, product=product)
filter_version_channel_product(self, product) ==
    LET prefix == major_version(rna_release[self].version) \o <<".">>
    IN  {r \in 1..Len(rna_release) :
            /\ startswith(rna_release[r].version, prefix)
            /\ rna_release[r].channel = rna_release[self].channel
            /\ rna_release[r].product = product}

\* the order by version without its minus sign
order_by_version_asc(rs) ==
    sorted(Ascending(rs),
           [i \in 1..Cardinality(rs) |-> rna_release[Ascending(rs)[i]].version],
           TRUE, FALSE)

\* .order_by('-version') of a set of rows
order_by_version_desc(rs) ==
    sorted(Ascending(rs),
           [i \in 1..Cardinality(rs) |-> rna_release[Ascending(rs)[i]].version],
           TRUE, TRUE)

\* the test of settings.DEV without its not
equivalent_queryset_dev_only(self, product) ==
    IF DEV
    THEN SelectSeq(
             order_by_version_desc(
                 filter_version_channel_product(self, product)),
             LAMBDA r : rna_release[r].is_public)
    ELSE order_by_version_desc(filter_version_channel_product(self, product))

\* the releases the method chooses from: the public ones unless
\* settings.DEV is set
equivalent_queryset(self, product) ==
    IF ~DEV
    THEN SelectSeq(
             order_by_version_desc(
                 filter_version_channel_product(self, product)),
             LAMBDA r : rna_release[r].is_public)
    ELSE order_by_version_desc(filter_version_channel_product(self, product))

\* the number of segments of the version of each release of a sequence
segment_count_keys(releases) ==
    [i \in 1..Len(releases) |-> Len(split(rna_release[releases[i]].version))]

\* the second segment of the version of each release of a sequence
minor_version_keys(releases) ==
    [i \in 1..Len(releases) |-> split(rna_release[releases[i]].version)[2]]

sorted_by_segment_count(releases, reverse) ==
    sorted(releases, segment_count_keys(releases), FALSE, reverse)

sorted_by_minor_version(releases, reverse) ==
    sorted(releases, minor_version_keys(releases), TRUE, reverse)

\* the two sorts the other way round: by the second segment, then by the
\* number of segments
first_by_minor_version_swapped(releases) ==
    sorted_by_segment_count(sorted_by_minor_version(releases, TRUE), TRUE)[1]

\* the inner sort without its reverse=True
first_by_minor_version_ascending(releases) ==
    sorted_by_minor_version(sorted_by_segment_count(releases, FALSE), TRUE)[1]

\* sorted(sorted(releases, reverse=True, key=number of segments),
\*        reverse=True, key=second segment)[0]
first_by_minor_version(releases) ==
    sorted_by_minor_version(sorted_by_segment_count(releases, TRUE), TRUE)[1]

\* what a call returns in place of a release when it raises IndexError
IndexError == -1

\* r.version.split('.')[1] of a version of one segment: the key of the last
\* sort is computed for every release of the list
raises_IndexError(releases) ==
    \E i \in 1..Len(releases) :
        Len(split(rna_release[releases[i]].version)) < 2

\* what the method returns: the key of a release, or None
equivalent_release_for_product(self, product) ==
    LET releases == equivalent_queryset(self, product)
    IN  IF releases # <<>>
        THEN IF raises_IndexError(releases) THEN IndexError
             ELSE first_by_minor_version(releases)
        ELSE None

\* Release.equivalent_release_for_product(product)
EquivalentReleaseForProduct(self, product) ==
    /\ call' = [op |-> "equivalent_release_for_product", self |-> self,
                product |-> product]
    /\ ret' = equivalent_release_for_product(self, product)
    /\ UNCHANGED <<rna_release, rna_note, rna_note_releases, DEV, requests>>

\* the product tested is that of the desktop method
equivalent_android_release_for_android(self) ==
    IF rna_release[self].product = "Firefox for Android"
    THEN [value |-> equivalent_release_for_product(self,
                                                   "Firefox for Android"),
          lookups |-> <<"Firefox for Android">>]
    ELSE [value |-> None, lookups |-> <<>>]

\* Release.equivalent_android_release: what it returns, and the products it
\* called equivalent_release_for_product with
equivalent_android_release(self) ==
    IF rna_release[self].product = "Firefox"
    THEN [value |-> equivalent_release_for_product(self,
                                                   "Firefox for Android"),
          lookups |-> <<"Firefox for Android">>]
    ELSE [value |-> None, lookups |-> <<>>]

\* Release.equivalent_desktop_release, likewise
equivalent_desktop_release(self) ==
    IF rna_release[self].product = "Firefox for Android"
    THEN [value |-> equivalent_release_for_product(self, "Firefox"),
          lookups |-> <<"Firefox">>]
    ELSE [value |-> None, lookups |-> <<>>]

EquivalentAndroidRelease(self) ==
    /\ call' = [op |-> "equivalent_android_release", self |-> self,
                lookups |-> equivalent_android_release(self).lookups]
    /\ ret' = equivalent_android_release(self).value
    /\ UNCHANGED <<rna_release, rna_note, rna_note_releases, DEV, requests>>

EquivalentDesktopRelease(self) ==
    /\ call' = [op |-> "equivalent_desktop_release", self |-> self,
                lookups |-> equivalent_desktop_release(self).lookups]
    /\ ret' = equivalent_desktop_release(self).value
    /\ UNCHANGED <<rna_release, rna_note, rna_note_releases, DEV, requests>>

(***************************************************************************)
(* Saving a release and ReleaseAdmin.copy_releases.  The stored state is   *)
(* passed as a record d of the three tables, d.release, d.note and         *)
(* d.links.  A write commits when it is made: the code opens no            *)
(* transaction.                                                            *)
(***************************************************************************)

\* what a call returns in place of a result when a constraint refuses a
\* row: the unique one of (product, version), that of a key, or NOT NULL
IntegrityError == -2

\* and when the storage fails a write
DatabaseError == -3

\* and when a function is called with a keyword it does not have
TypeError == -4

\* s.endswith(suffix)
endswith(s, suffix) ==
    /\ Len(suffix) <= Len(s)
    /\ SubSeq(s, Len(s) - Len(suffix) + 1, Len(s)) = suffix

Digit(n) ==
    CASE n = 0 -> "0" [] n = 1 -> "1" [] n = 2 -> "2" [] n = 3 -> "3"
      [] n = 4 -> "4" [] n = 5 -> "5" [] n = 6 -> "6" [] n = 7 -> "7"
      [] n = 8 -> "8" [] n = 9 -> "9"

\* '%s' % n of a natural number
RECURSIVE str(_)
str(n) == IF n < 10 THEN <<Digit(n)>> ELSE str(n \div 10) \o <<Digit(n % 10)>>

\* the stored state of the moment
db == [release |-> rna_release, note |-> rna_note, links |-> rna_note_releases]

\* the constraint left out
violates_unique_never(d, id, row) == FALSE

\* unique_together (product, version): another row has the pair of the row
violates_unique(d, id, row) ==
    \E r \in 1..Len(d.release) :
        /\ r # id
        /\ d.release[r].product = row.product
        /\ d.release[r].version = row.version

\* modified of an object that never got a timestamp: None, which is no
\* reading of the clock
NULL == -7

\* the column modified takes no NULL
violates_not_null(row) == row.modified = NULL

\* Release.save(modified=modified) of the row of key id, None for a new
\* row: the timestamp is set, and the row is inserted or updated unless a
\* constraint refuses it
release_save(d, id, row, now, modified) ==
    LET stamped == IF modified THEN [row EXCEPT !.modified = now] ELSE row
    IN  IF violates_not_null(stamped) \/ violates_unique(d, id, stamped)
        THEN [error |-> IntegrityError, db |-> d]
        ELSE [error |-> None,
              db |-> [d EXCEPT !.release =
                         IF id = None THEN Append(@, stamped)
                         ELSE [@ EXCEPT ![id] = stamped]]]

\* the keyword taken for True whatever it is
kwargs_pop_modified_ignored(kwargs) == TRUE

\* kwargs.pop('modified', True): the value of the keyword, True without it
kwargs_pop_modified(kwargs) ==
    IF "modified" \in DOMAIN kwargs THEN kwargs["modified"] ELSE TRUE

\* the keywords left after the pop, which the save of the base class gets
kwargs_popped(kwargs) ==
    [k \in DOMAIN kwargs \ {"modified"} |-> kwargs[k]]

\* Note.save(modified=modified) of the row of key id, None for a new row:
\* the timestamp is set, and the row is inserted or updated unless it has
\* no timestamp, which the column refuses
note_save(d, id, row, now, modified) ==
    LET stamped == IF modified THEN [row EXCEPT !.modified = now] ELSE row
    IN  IF violates_not_null(stamped)
        THEN [error |-> IntegrityError, db |-> d]
        ELSE [error |-> None,
              db |-> [d EXCEPT !.note =
                         IF id = None THEN Append(@, stamped)
                         ELSE [@ EXCEPT ![id] = stamped]]]

\* what a call returns in place of a result when Model.save is given
\* arguments that exclude each other or names that are no fields
ValueError == -5

\* and when a database is asked for that the settings do not have
ConnectionDoesNotExist == -6

\* the parameters of Model.save after self, in their order
ModelSaveParameters ==
    <<"force_insert", "force_update", "using", "update_fields">>

\* the databases of the settings
DATABASES == {"default"}

\* the names Model.save takes in update_fields: the fields of the model
\* but the primary key and the many-to-many field, a foreign key under
\* both of its names
field_names(model) ==
    IF model = "Release"
    THEN {"created", "modified", "product", "channel", "version",
          "release_date", "text", "is_public", "bug_list", "bug_search_url",
          "system_requirements"}
    ELSE {"created", "modified", "bug", "note", "is_known_issue",
          "fixed_in_release", "fixed_in_release_id", "tag", "sort_num",
          "is_public", "image"}

\* Model.save(*args, **kwargs) gets force_insert as true: the first
\* positional argument or the keyword, a string being true unless it is
\* empty
force_insert(args, kwargs) ==
    IF Len(args) >= 1 THEN args[1] # ""
    ELSE IF "force_insert" \in DOMAIN kwargs THEN kwargs["force_insert"] # ""
    ELSE FALSE

\* and force_update as true: the second positional argument or the keyword
force_update(args, kwargs) ==
    IF Len(args) >= 2 THEN args[2] # ""
    ELSE IF "force_update" \in DOMAIN kwargs THEN kwargs["force_update"] # ""
    ELSE FALSE

\* using or router.db_for_write(...): the third positional argument or the
\* keyword unless it is false, and then the database of the object,
\* which is default
using(args, kwargs) ==
    IF Len(args) >= 3 THEN (IF args[3] # "" THEN args[3] ELSE "default")
    ELSE IF "using" \in DOMAIN kwargs /\ kwargs["using"] # ""
    THEN kwargs["using"]
    ELSE "default"

\* update_fields is not None: it is the fourth positional argument or the
\* keyword
update_fields_given(args, kwargs) ==
    Len(args) >= 4 \/ "update_fields" \in DOMAIN kwargs

\* the names of update_fields that are names of fields, in a sequence: those
\* of the list given by keyword.  A positional argument is a string, whose
\* items are its letters, and no field has a letter for its name.
update_fields(args, kwargs) ==
    IF Len(args) < 4 /\ "update_fields" \in DOMAIN kwargs
    THEN kwargs["update_fields"]
    ELSE <<>>

\* update_fields has an item that is no name of a field of the model
update_fields_unknown(model, args, kwargs) ==
    IF Len(args) >= 4 THEN args[4] # ""
    ELSE IF "update_fields" \in DOMAIN kwargs
    THEN \E i \in 1..Len(kwargs["update_fields"]) :
             kwargs["update_fields"][i] \notin field_names(model)
    ELSE FALSE

\* update_fields is true: it is given and not empty
update_fields_true(args, kwargs) ==
    IF Len(args) >= 4 THEN args[4] # ""
    ELSE IF "update_fields" \in DOMAIN kwargs
    THEN kwargs["update_fields"] # <<>>
    ELSE FALSE

\* Model.save returns before it writes: update_fields is given and empty
model_save_skips(args, kwargs) ==
    /\ update_fields_given(args, kwargs)
    /\ ~update_fields_true(args, kwargs)

\* what Model.save(*args, **kwargs) of a stored row of the model raises
\* before it writes, in the order of its checks: TypeError for a keyword
\* that is no parameter, for a parameter given twice and for too many
\* arguments; ValueError for force_insert with force_update or with
\* update_fields; nothing when update_fields is empty, where it returns;
\* ValueError for a name in update_fields that is no field;
\* ConnectionDoesNotExist for a database the settings do not have; and
\* IntegrityError for force_insert, the INSERT of a key that is stored
model_save_raises(model, args, kwargs) ==
    IF \/ Len(args) > Len(ModelSaveParameters)
       \/ \E k \in DOMAIN kwargs : k \notin Range(ModelSaveParameters)
       \/ \E i \in 1..Len(args) :
              i <= Len(ModelSaveParameters)
              /\ ModelSaveParameters[i] \in DOMAIN kwargs
    THEN TypeError
    ELSE IF /\ force_insert(args, kwargs)
            /\ \/ force_update(args, kwargs)
               \/ update_fields_true(args, kwargs)
    THEN ValueError
    ELSE IF model_save_skips(args, kwargs) THEN None
    ELSE IF update_fields_unknown(model, args, kwargs) THEN ValueError
    ELSE IF using(args, kwargs) \notin DATABASES THEN ConnectionDoesNotExist
    ELSE IF force_insert(args, kwargs) THEN IntegrityError
    ELSE None

\* the name of the attribute that holds the value of the field: the name of
\* the field, with _id for a foreign key
attname(f) == IF f = "fixed_in_release" THEN "fixed_in_release_id" ELSE f

\* the row Model.save writes for the object: every field as the object
\* holds it, or with update_fields the fields it names alone, by their
\* names or the names of their attributes, the others as they are stored
model_save_row(old, object, args, kwargs) ==
    IF update_fields_given(args, kwargs)
    THEN [f \in DOMAIN old |->
             IF \/ f \in Range(update_fields(args, kwargs))
                \/ attname(f) \in Range(update_fields(args, kwargs))
             THEN object[f] ELSE old[f]]
    ELSE object

\* the UPDATE of Model.save for the stored row id of the model: the row is
\* written unless a constraint refuses it, the unique one of the releases
\* or the one that modified is not NULL
model_save_update(d, model, id, row) ==
    IF violates_not_null(row) THEN [error |-> IntegrityError, db |-> d]
    ELSE IF model = "Release"
    THEN IF violates_unique(d, id, row)
         THEN [error |-> IntegrityError, db |-> d]
         ELSE [error |-> None,
               db |-> [d EXCEPT !.release = [@ EXCEPT ![id] = row]]]
    ELSE [error |-> None, db |-> [d EXCEPT !.note = [@ EXCEPT ![id] = row]]]

\* TimeStampedModel.save(*args, **kwargs) of the stored row id of the
\* model, Release or Note, fetched before the call: object is the row the
\* object holds after the call.  The save of the base class raises and
\* stores nothing, or returns at once for an empty update_fields, or
\* stores the fields of the object, all or those of update_fields.
TimeStampedModelSave(model, id, now, args, kwargs) ==
    /\ LET table == IF model = "Release" THEN rna_release ELSE rna_note
           modified == kwargs_pop_modified(kwargs)
           object == IF modified THEN [table[id] EXCEPT !.modified = now]
                     ELSE table[id]
           super_kwargs == kwargs_popped(kwargs)
           raised == model_save_raises(model, args, super_kwargs)
           done == IF raised # None \/ model_save_skips(args, super_kwargs)
                   THEN [error |-> raised, db |-> db]
                   ELSE model_save_update(db, model, id,
                            model_save_row(table[id], object, args,
                                           super_kwargs))
       IN  /\ rna_release' = done.db.release
           /\ rna_note' = done.db.note
           /\ call' = [op |-> "TimeStampedModel.save", model |-> model,
                       id |-> id, now |-> now, args |-> args,
                       kwargs |-> kwargs, before |-> table,
                       object |-> object,
                       super_args |-> args,
                       super_kwargs |-> super_kwargs]
           /\ ret' = done.error
    /\ UNCHANGED <<rna_note_releases, DEV, requests>>

\* the releases of the product that have the version itself
copy_count_exact(d, release) ==
    Cardinality({r \in 1..Len(d.release) :
                    /\ d.release[r].version = release.version
                    /\ d.release[r].product = release.product})

\* objects.filter(version__endswith=release.version,
\*                product=release.product).count()
\* for the release as the queryset fetched it
copy_count(d, release) ==
    Cardinality({r \in 1..Len(d.release) :
                    /\ endswith(d.release[r].version, release.version)
                    /\ d.release[r].product = release.product})

\* the version of the copy
copy_version(count, version) ==
    IF count > 1
    THEN <<"c", "o", "p", "y">> \o str(count) \o <<"-">> \o version
    ELSE <<"c", "o", "p", "y", "-">> \o version

\* list(release.note_set.all()): the keys of the notes linked to the
\* release, in the order of the plan of the query
note_set_all(d, release, plan) == plan_rows(d, release, plan)

\* copy.note_set.add(*notes): a link is inserted for each note that is not
\* linked to the release yet, the notes taken in the given order
note_set_add(d, release, notes) ==
    LET new == SelectSeq(notes, LAMBDA n : <<n, release>> \notin Range(d.links))
    IN  [d EXCEPT !.links =
            @ \o SubSeq([i \in 1..Len(new) |-> <<new[i], release>>],
                        1, Len(new))]

\* copy.note_set.update(modified=now)
note_set_update_modified(d, release, now) ==
    [d EXCEPT !.note =
        SubSeq([n \in 1..Len(@) |->
                   IF <<n, release>> \in Range(d.links)
                   THEN [@[n] EXCEPT !.modified = now] ELSE @[n]],
               1, Len(@))]

\* the copy keeps the visibility of its source
copy_row_visible(release, count) ==
    [release EXCEPT !.version = copy_version(count, @)]

\* copy = release with its version and is_public set: the row that is saved
copy_row(release, count) ==
    [release EXCEPT !.version = copy_version(count, @),
                    !.is_public = FALSE]

\* the key of the source kept, so that the save writes the row of the source
copy_save_in_place(d, id, row, now) ==
    [id |-> id] @@ release_save(d, id, row, now, TRUE)

\* copy.id = None; copy.save(): the row is inserted whatever key id the
\* release had, and the copy has the key of the new row
copy_save(d, id, row, now) ==
    [id |-> Len(d.release) + 1] @@ release_save(d, None, row, now, TRUE)

(***************************************************************************)
(* A request of copy_releases is a process: it fetches its queryset and,   *)
(* for each release of it, counts the versions, reads the notes, saves the *)
(* copy, adds the links and updates the notes, one statement of the        *)
(* database at a time.  Other requests run between these steps.  The       *)
(* record of a request holds what the loop has in its local variables,     *)
(* and runs, for each release the loop came to: the release, the stored    *)
(* state before its copy, the row and the key of the copy, the readings of *)
(* the clock and how the copy ended.                                       *)
(***************************************************************************)

Requests == {1, 2}

EmptyDb == [release |-> <<>>, note |-> <<>>, links |-> <<>>]

\* no request running in the slot
Idle ==
    [pc |-> "idle", queryset |-> <<>>, rows |-> <<>>, i |-> 0, count |-> 0,
     notes |-> <<>>, id |-> None, before |-> EmptyDb, t_save |-> 0,
     runs |-> <<>>]

\* the run of the release the request is at, ended with error at t_update
Run(q, error, t_update) ==
    [source |-> q.queryset[q.i], before |-> q.before,
     copy |-> copy_row(q.rows[q.i], q.count), id |-> q.id,
     t_save |-> q.t_save, t_update |-> t_update, error |-> error]

\* the request k ends, with an error or without: copy_releases returns.
\* before is the table of the releases before the last step
CopyEnd(k, runs, error) ==
    /\ requests' = [requests EXCEPT ![k] = Idle]
    /\ call' = [op |-> "copy_releases", request |-> k,
                queryset |-> requests[k].queryset, runs |-> runs,
                before |-> rna_release]
    /\ ret' = error

\* the request k goes on with q as its local variables
CopyStep(k, q, step) ==
    /\ requests' = [requests EXCEPT ![k] = q]
    /\ call' = [op |-> step, request |-> k]
    /\ ret' = None

\* for release in queryset: the releases of the queryset are fetched
CopyFetch(k, queryset) ==
    /\ requests[k].pc = "idle"
    /\ CopyStep(k, [Idle EXCEPT
                       !.pc = "count",
                       !.queryset = queryset,
                       !.rows = SubSeq([j \in 1..Len(queryset) |->
                                           rna_release[queryset[j]]],
                                       1, Len(queryset)),
                       !.i = 1],
                "copy_releases: fetch")
    /\ UNCHANGED <<rna_release, rna_note, rna_note_releases, DEV>>

\* copy_count = ...count()
CopyCount(k) ==
    /\ requests[k].pc = "count"
    /\ LET q == requests[k]
       IN  CopyStep(k, [q EXCEPT !.pc = "notes",
                                 !.count = copy_count(db, q.rows[q.i]),
                                 !.before = db,
                                 !.id = None],
                    "copy_releases: count")
    /\ UNCHANGED <<rna_release, rna_note, rna_note_releases, DEV>>

\* notes = list(release.note_set.all())
CopyNotes(k, plan) ==
    /\ requests[k].pc = "notes"
    /\ LET q == requests[k]
       IN  CopyStep(k, [q EXCEPT !.pc = "save",
                                 !.notes = note_set_all(db, q.queryset[q.i],
                                                        plan)],
                    "copy_releases: notes")
    /\ UNCHANGED <<rna_release, rna_note, rna_note_releases, DEV>>

\* copy.save(), the clock read as now; the storage fails the write or not
CopySave(k, now, fails) ==
    /\ requests[k].pc = "save"
    /\ LET q == requests[k]
           saved == IF fails
                    THEN [error |-> DatabaseError, db |-> db, id |-> None]
                    ELSE copy_save(db, q.queryset[q.i],
                                   copy_row(q.rows[q.i], q.count), now)
       IN  IF saved.error # None
           THEN /\ CopyEnd(k, Append(q.runs, Run(q, saved.error, 0)),
                           saved.error)
                /\ UNCHANGED rna_release
           ELSE /\ rna_release' = saved.db.release
                /\ CopyStep(k, [q EXCEPT !.pc = "add", !.id = saved.id,
                                         !.t_save = now],
                            "copy_releases: save")
    /\ UNCHANGED <<rna_note, rna_note_releases, DEV>>

\* copy.note_set.add(*notes): the links are inserted in the order the set
\* of the new keys is gone through
CopyAdd(k, order, fails) ==
    /\ requests[k].pc = "add"
    /\ LET q == requests[k]
       IN  /\ order \in Orders(Range(q.notes))
           /\ IF fails
              THEN /\ CopyEnd(k, Append(q.runs, Run(q, DatabaseError, 0)),
                              DatabaseError)
                   /\ UNCHANGED rna_note_releases
              ELSE /\ rna_note_releases' = note_set_add(db, q.id, order).links
                   /\ CopyStep(k, [q EXCEPT !.pc = "update"],
                               "copy_releases: add")
    /\ UNCHANGED <<rna_release, rna_note, DEV>>

\* copy.note_set.update(modified=datetime.now()), and then the next release
\* of the queryset or the end of the loop
CopyUpdate(k, now, fails) ==
    /\ requests[k].pc = "update"
    /\ LET q == requests[k]
       IN  IF fails
           THEN /\ CopyEnd(k, Append(q.runs, Run(q, DatabaseError, 0)),
                           DatabaseError)
                /\ UNCHANGED rna_note
           ELSE /\ rna_note' = note_set_update_modified(db, q.id, now).note
                /\ IF q.i < Len(q.queryset)
                   THEN CopyStep(k, [q EXCEPT
                                        !.pc = "count", !.i = q.i + 1,
                                        !.runs = Append(@, Run(q, None, now))],
                                 "copy_releases: update")
                   ELSE CopyEnd(k, Append(q.runs, Run(q, None, now)), None)
    /\ UNCHANGED <<rna_release, rna_note_releases, DEV>>

(***************************************************************************)
(* The notes of a release: the tables are drawn from bounded sets and      *)
(* Release.notes is applied to them.  Every note is linked to both         *)
(* releases, 42.0 (key 1) and 42.0.1 (key 2).                              *)
(***************************************************************************)

MaxNotes == 3

s_42_0 == <<"4", "2", ".", "0">>
s_42_0_1 == <<"4", "2", ".", "0", ".", "1">>

\* "42.0.1 x" starts with both versions, "42.0 x" with the first only
NoteBodies == {s_42_0_1 \o <<" ", "x">>, s_42_0 \o <<" ", "x">>}
NoteTags == {"", "Changed", "Fixed"}
SortNums == {0, 1}

NotesReleases ==
    << [product |-> "Firefox", channel |-> "Release", version |-> s_42_0,
        is_public |-> TRUE],
       [product |-> "Firefox", channel |-> "Release", version |-> s_42_0_1,
        is_public |-> TRUE] >>

\* public notes: every tag and sort_num on notes that are no known issue,
\* with both bodies on the Fixed ones, and known issues that are fixed in
\* no release
NoteInputs ==
    [tag : NoteTags \ {"Fixed"}, note : {s_42_0_1 \o <<" ", "x">>},
     sort_num : SortNums, is_known_issue : {FALSE},
     fixed_in_release : {None}, is_public : {TRUE}]
    \cup
    [tag : {"Fixed"}, note : NoteBodies, sort_num : SortNums,
     is_known_issue : {FALSE}, fixed_in_release : {None},
     is_public : {TRUE}]
    \cup
    [tag : {"", "Fixed"}, note : {s_42_0_1 \o <<" ", "x">>},
     sort_num : SortNums, is_known_issue : {TRUE},
     fixed_in_release : {None}, is_public : {TRUE}]

\* public and non-public notes: known issues open everywhere, fixed in
\* release 1 or no known issue
NoteInputsPublic ==
    [tag : {""}, note : {s_42_0_1 \o <<" ", "x">>},
     sort_num : {0},
     is_known_issue : {TRUE}, fixed_in_release : {None, 1},
     is_public : BOOLEAN]
    \cup
    [tag : {"", "Fixed"}, note : {s_42_0_1 \o <<" ", "x">>},
     sort_num : SortNums,
     is_known_issue : {FALSE}, fixed_in_release : {None},
     is_public : BOOLEAN]

\* every field drawn independently
NoteInputsAll ==
    [tag : NoteTags, note : NoteBodies, sort_num : SortNums,
     is_known_issue : BOOLEAN, fixed_in_release : {None, 1, 2},
     is_public : BOOLEAN]

\* new features with no tag, the first tag of TAGS or the second
NoteInputsTags ==
    [tag : {"", "New", "Changed"}, note : {<<"x">>}, sort_num : SortNums,
     is_known_issue : {FALSE}, fixed_in_release : {None},
     is_public : {TRUE}]

\* the four kinds of note of a release with an untagged known issue fixed
\* in each release, a Changed note and a Fixed note, each of any sort_num
ScenarioKinds ==
    << [tag : {""}, note : {<<"x">>}, sort_num : SortNums,
        is_known_issue : {TRUE}, fixed_in_release : {1},
        is_public : {TRUE}],
       [tag : {""}, note : {<<"x">>}, sort_num : SortNums,
        is_known_issue : {TRUE}, fixed_in_release : {2},
        is_public : {TRUE}],
       [tag : {"Changed"}, note : {<<"x">>}, sort_num : SortNums,
        is_known_issue : {FALSE}, fixed_in_release : {None},
        is_public : {TRUE}],
       [tag : {"Fixed"}, note : NoteBodies, sort_num : SortNums,
        is_known_issue : {FALSE}, fixed_in_release : {None},
        is_public : {TRUE}] >>

NoteInputsScenario ==
    UNION {ScenarioKinds[k] : k \in DOMAIN ScenarioKinds}

\* the tables that hold one note of each kind, in any order
ScenarioTables ==
    {t \in [DOMAIN ScenarioKinds -> NoteInputsScenario] :
        \A k \in DOMAIN ScenarioKinds :
            \E i \in DOMAIN t : t[i] \in ScenarioKinds[k]}

\* every one of n notes linked to every one of m releases: the links of a
\* release of an odd key inserted in the order of the keys of the notes,
\* those of a release of an even key in the opposite order
AllLinks(n, m) ==
    SubSeq([k \in 1..(n * m) |->
               LET r == ((k - 1) \div n) + 1
                   j == ((k - 1) % n) + 1
               IN  <<IF r % 2 = 1 THEN j ELSE n + 1 - j, r>>], 1, n * m)

RECURSIVE SeqsUpTo(_, _)
SeqsUpTo(S, n) ==
    IF n = 0 THEN {<<>>}
    ELSE LET shorter == SeqsUpTo(S, n - 1)
         IN  shorter \cup {Append(s, x) : s \in shorter, x \in S}

InitNoteTables(stores) ==
    /\ rna_release = NotesReleases
    /\ rna_note \in stores
    /\ rna_note_releases = AllLinks(Len(rna_note), Len(rna_release))
    /\ DEV = FALSE
    /\ requests = [k \in Requests |-> Idle]
    /\ call = [op |-> "init"]
    /\ ret = None

InitNotes == InitNoteTables(SeqsUpTo(NoteInputs, MaxNotes))

InitNotesPublic == InitNoteTables(SeqsUpTo(NoteInputsPublic, MaxNotes))

InitNote == InitNoteTables({<<n>> : n \in NoteInputsAll})

NextNotes ==
    \E self \in 1..Len(rna_release), public_only \in BOOLEAN,
       plan \in Plans :
        Notes(self, public_only, plan)

NextNote ==
    \E n \in 1..Len(rna_note), release \in 1..Len(rna_release) :
        IsKnownIssueFor(n, release)

SpecNotes == InitNotes /\ [][NextNotes]_vars

SpecNotesPublic == InitNotesPublic /\ [][NextNotes]_vars

\* shorter tables of public and non-public notes
InitNotesRead == InitNoteTables(SeqsUpTo(NoteInputsPublic, MaxNotes - 1))

SpecNotesRead == InitNotesRead /\ [][NextNotes]_vars

InitNotesTags == InitNoteTables(SeqsUpTo(NoteInputsTags, MaxNotes))

SpecNotesTags == InitNotesTags /\ [][NextNotes]_vars

\* notes that are no known issue, of bodies that start with 42.0.1, with
\* 42.0 followed by a space, or with neither
NoteInputsDotFix ==
    [tag : NoteTags, note : NoteBodies \cup {<<"x">>}, sort_num : SortNums,
     is_known_issue : {FALSE}, fixed_in_release : {None},
     is_public : {TRUE}]

\* a release of an empty version (key 1) and the release 42.0 (key 2)
DotFixReleases ==
    << [product |-> "Firefox", channel |-> "Release", version |-> <<>>,
        is_public |-> TRUE],
       [product |-> "Firefox", channel |-> "Release", version |-> s_42_0,
        is_public |-> TRUE] >>

InitNotesDotFix ==
    /\ rna_release = DotFixReleases
    /\ rna_note \in SeqsUpTo(NoteInputsDotFix, MaxNotes - 1)
    /\ rna_note_releases = AllLinks(Len(rna_note), Len(rna_release))
    /\ DEV = FALSE
    /\ requests = [k \in Requests |-> Idle]
    /\ call = [op |-> "init"]
    /\ ret = None

SpecNotesDotFix == InitNotesDotFix /\ [][NextNotes]_vars

InitNotesScenario == InitNoteTables(ScenarioTables)

SpecNotesScenario == InitNotesScenario /\ [][NextNotes]_vars

SpecNote == InitNote /\ [][NextNote]_vars

(***************************************************************************)
(* The equivalent release: the table of releases and settings.DEV are      *)
(* drawn from bounded sets and the method is applied to them.  A table     *)
(* holds each (product, version) once at most.  The method reads no        *)
(* primary key, so one order of insertion is drawn for each set of rows:   *)
(* that of ReleaseKeys.                                                    *)
(***************************************************************************)

MaxReleases == 3

s_4_2 == <<"4", ".", "2">>
s_42_9 == <<"4", "2", ".", "9">>

ReleaseProducts == {"Firefox", "Firefox for Android"}
ReleaseChannels == {"Release", "Beta"}

\* the (product, version) pairs of the rows, in the order the rows are
\* inserted in
ReleaseKeys ==
    << [product |-> "Firefox", version |-> s_4_2],
       [product |-> "Firefox", version |-> s_42_0],
       [product |-> "Firefox", version |-> s_42_0_1],
       [product |-> "Firefox", version |-> s_42_9],
       [product |-> "Firefox for Android", version |-> s_42_0],
       [product |-> "Firefox for Android", version |-> s_42_9] >>

\* the tables of at most n rows, of some of the keys in their order, each
\* row with any channel and visibility
RECURSIVE ReleaseTables(_, _)
ReleaseTables(keys, n) ==
    IF keys = <<>> \/ n = 0 THEN {<<>>}
    ELSE ReleaseTables(Tail(keys), n)
         \cup {<<[product |-> Head(keys).product,
                  channel |-> c,
                  version |-> Head(keys).version,
                  is_public |-> p]>> \o t :
                   c \in ReleaseChannels, p \in BOOLEAN,
                   t \in ReleaseTables(Tail(keys), n - 1)}

InitEquiv ==
    /\ rna_release \in ReleaseTables(ReleaseKeys, MaxReleases)
    /\ rna_note = <<>>
    /\ rna_note_releases = <<>>
    /\ DEV \in BOOLEAN
    /\ requests = [k \in Requests |-> Idle]
    /\ call = [op |-> "init"]
    /\ ret = None

NextEquiv ==
    \E self \in 1..Len(rna_release), product \in ReleaseProducts :
        EquivalentReleaseForProduct(self, product)

SpecEquiv == InitEquiv /\ [][NextEquiv]_vars

(***************************************************************************)
(* The equivalent release among versions of one segment ("42"), of an      *)
(* empty second segment ("42.") and of second segments of one and two      *)
(* digits ("42.9", "42.10").                                               *)
(***************************************************************************)

s_42 == <<"4", "2">>
s_42_ == <<"4", "2", ".">>
s_42_10 == <<"4", "2", ".", "1", "0">>

MinorKeys ==
    << [product |-> "Firefox", version |-> s_42],
       [product |-> "Firefox", version |-> s_42_],
       [product |-> "Firefox", version |-> s_42_9],
       [product |-> "Firefox", version |-> s_42_10],
       [product |-> "Firefox for Android", version |-> s_42_],
       [product |-> "Firefox for Android", version |-> s_42_10] >>

InitEquivMinor ==
    /\ rna_release \in ReleaseTables(MinorKeys, MaxReleases)
    /\ rna_note = <<>>
    /\ rna_note_releases = <<>>
    /\ DEV \in BOOLEAN
    /\ requests = [k \in Requests |-> Idle]
    /\ call = [op |-> "init"]
    /\ ret = None

SpecEquivMinor == InitEquivMinor /\ [][NextEquiv]_vars

(***************************************************************************)
(* The equivalent release among versions that agree in their second        *)
(* segment and in their number of segments ("42.0.1", "42.0.2"), stored in *)
(* ascending order of version for one product and in descending order for  *)
(* the other.                                                              *)
(***************************************************************************)

s_42_0_2 == <<"4", "2", ".", "0", ".", "2">>
s_42_1 == <<"4", "2", ".", "1">>

OrderKeys ==
    << [product |-> "Firefox", version |-> s_42_0_1],
       [product |-> "Firefox", version |-> s_42_0_2],
       [product |-> "Firefox", version |-> s_42_0],
       [product |-> "Firefox", version |-> s_42_1],
       [product |-> "Firefox for Android", version |-> s_42_0_2],
       [product |-> "Firefox for Android", version |-> s_42_0_1] >>

InitEquivOrder ==
    /\ rna_release \in ReleaseTables(OrderKeys, MaxReleases)
    /\ rna_note = <<>>
    /\ rna_note_releases = <<>>
    /\ DEV \in BOOLEAN
    /\ requests = [k \in Requests |-> Idle]
    /\ call = [op |-> "init"]
    /\ ret = None

SpecEquivOrder == InitEquivOrder /\ [][NextEquiv]_vars

(***************************************************************************)
(* The equivalent Android and desktop releases, of releases of three       *)
(* products.                                                               *)
(***************************************************************************)

ProductKeys ==
    << [product |-> "Firefox", version |-> s_42_0],
       [product |-> "Firefox", version |-> s_42_9],
       [product |-> "Firefox for Android", version |-> s_42_0],
       [product |-> "Firefox for Android", version |-> s_42_0_1],
       [product |-> "Firefox OS", version |-> s_42_0],
       [product |-> "Thunderbird", version |-> s_42_0] >>

InitEquivProducts ==
    /\ rna_release \in ReleaseTables(ProductKeys, MaxReleases)
    /\ rna_note = <<>>
    /\ rna_note_releases = <<>>
    /\ DEV \in BOOLEAN
    /\ requests = [k \in Requests |-> Idle]
    /\ call = [op |-> "init"]
    /\ ret = None

NextEquivProducts ==
    \E self \in 1..Len(rna_release) :
        \/ EquivalentAndroidRelease(self)
        \/ EquivalentDesktopRelease(self)

SpecEquivProducts == InitEquivProducts /\ [][NextEquivProducts]_vars

(***************************************************************************)
(* The major version and the bug search URL, of the releases of a table    *)
(* of one or two releases: versions of no, one and two dots, an empty      *)
(* version, and releases with and without a bug_search_url of their own.   *)
(***************************************************************************)

UrlVersions == {<<>>, s_42, s_42_, s_4_2, s_42_0, s_42_0_1}
UrlProducts == {"Firefox", "Firefox OS", "Thunderbird"}
UrlOverrides == {<<>>, <<"http://example.com">>}

UrlReleases ==
    [product : UrlProducts, channel : {"Release"}, version : UrlVersions,
     is_public : {TRUE}, bug_search_url : UrlOverrides]

InitUrl ==
    /\ rna_release \in
           {<<a>> : a \in UrlReleases}
           \cup {t \in {<<a, b>> : a, b \in UrlReleases} :
                       \/ t[1].product # t[2].product
                       \/ t[1].version # t[2].version}
    /\ rna_note = <<>>
    /\ rna_note_releases = <<>>
    /\ DEV = FALSE
    /\ requests = [k \in Requests |-> Idle]
    /\ call = [op |-> "init"]
    /\ ret = None

NextUrl ==
    \E self \in 1..Len(rna_release) :
        \/ MajorVersion(self)
        \/ GetBugSearchUrl(self)

SpecUrl == InitUrl /\ [][NextUrl]_vars

(***************************************************************************)
(* Copying releases: a table of one or two releases and the administrator  *)
(* copying one or two of the stored releases at a time, copies among them, *)
(* one request after the other, until the table has MaxRows releases; and  *)
(* one request on a table of releases with up to two notes linked to them  *)
(* in every way.  "2.0" is the end of "42.0".  The clock is read as any    *)
(* value up to MaxTime: a reading is later than the one before, equal to   *)
(* it or, the clock set back, earlier.                                     *)
(***************************************************************************)

MaxRows == 4

MaxTime == 1

\* what datetime.now() can return
Clock == 0..MaxTime

s_2_0 == <<"2", ".", "0">>

CopyKeys ==
    << [product |-> "Firefox", version |-> s_2_0],
       [product |-> "Firefox", version |-> s_42_0],
       [product |-> "Firefox for Android", version |-> s_2_0] >>

\* the tables of at most n rows, of some of the keys in their order, each
\* row public or not
RECURSIVE CopyTables(_, _)
CopyTables(keys, n) ==
    IF keys = <<>> \/ n = 0 THEN {<<>>}
    ELSE CopyTables(Tail(keys), n)
         \cup {<<[product |-> Head(keys).product,
                  channel |-> "Release",
                  version |-> Head(keys).version,
                  is_public |-> p,
                  modified |-> 0]>> \o t :
                   p \in BOOLEAN, t \in CopyTables(Tail(keys), n - 1)}

CopyNote ==
    [tag |-> "", note |-> <<"x">>, sort_num |-> 0, is_known_issue |-> FALSE,
     fixed_in_release |-> None, is_public |-> TRUE, modified |-> 0]

\* releases without notes
InitCopy ==
    /\ rna_release \in CopyTables(CopyKeys, 2) \ {<<>>}
    /\ rna_note = <<>>
    /\ rna_note_releases = <<>>
    /\ DEV = FALSE
    /\ requests = [k \in Requests |-> Idle]
    /\ call = [op |-> "init"]
    /\ ret = None

\* releases with notes: some of the links of AllLinks, in their order
InitCopyNotes ==
    /\ rna_release \in CopyTables(CopyKeys, 2) \ {<<>>}
    /\ rna_note \in {<<>>, <<CopyNote>>, <<CopyNote, CopyNote>>}
    /\ rna_note_releases \in
           {SelectSeq(AllLinks(Len(rna_note), Len(rna_release)),
                      LAMBDA l : l \in S) :
                S \in SUBSET ((1..Len(rna_note)) \X (1..Len(rna_release)))}
    /\ DEV = FALSE
    /\ requests = [k \in Requests |-> Idle]
    /\ call = [op |-> "init"]
    /\ ret = None

\* the querysets of at most n releases: stored releases in any order
Querysets(n) ==
    {q \in SeqsUpTo(1..Len(rna_release), n) :
        q # <<>> /\ \A i, j \in 1..Len(q) : q[i] = q[j] => i = j}

\* a step of the loop of the request k; the storage fails a write when
\* fails is drawn as TRUE
CopyLoop(k, clock, faults) ==
    \/ CopyCount(k)
    \/ \E plan \in Plans : CopyNotes(k, plan)
    \/ \E now \in clock, fails \in faults : CopySave(k, now, fails)
    \/ \E order \in Orders(Range(requests[k].notes)), fails \in faults :
           CopyAdd(k, order, fails)
    \/ \E now \in clock, fails \in faults : CopyUpdate(k, now, fails)

\* one request at a time; the storage fails no write
NextCopy ==
    \/ \E queryset \in Querysets(2) :
           /\ Len(rna_release) + Len(queryset) <= MaxRows
           /\ CopyFetch(1, queryset)
    \/ CopyLoop(1, Clock, {FALSE})

SpecCopy == InitCopy /\ [][NextCopy]_vars

\* one request, made before any other call; the storage fails no write
NextCopyNotes ==
    \/ \E queryset \in Querysets(2) :
           /\ call.op = "init"
           /\ CopyFetch(1, queryset)
    \/ CopyLoop(1, Clock, {FALSE})

SpecCopyNotes == InitCopyNotes /\ [][NextCopyNotes]_vars

\* one request, made before any other call; the storage may fail any write
NextCopyFaults ==
    \/ \E queryset \in Querysets(2) :
           /\ call.op = "init"
           /\ CopyFetch(1, queryset)
    \/ CopyLoop(1, Clock, BOOLEAN)

SpecCopyFaults == InitCopyNotes /\ [][NextCopyFaults]_vars

(***************************************************************************)
(* Creating, saving and copying releases, from an empty table on: the      *)
(* administrator stores releases of two products and two versions, one of  *)
(* them the name of a copy of the other, edits the version of a stored     *)
(* release and saves it with modified=False, and copies a release;         *)
(* releases are stored and saved between the steps of a copy.  MaxStored   *)
(* releases are stored at most, the copy a running request has still to    *)
(* store counted in.                                                       *)
(***************************************************************************)

MaxStored == 2

s_copy_2_0 == <<"c", "o", "p", "y", "-">> \o s_2_0

StoreVersions == {s_2_0, s_copy_2_0}

\* Release(product=..., channel=..., version=..., is_public=...).save()
ReleaseCreate(product, version, is_public, now) ==
    /\ LET row == [product |-> product, channel |-> "Release",
                   version |-> version, is_public |-> is_public,
                   modified |-> NULL]
           done == release_save(db, None, row, now, TRUE)
       IN  /\ rna_release' = done.db.release
           /\ call' = [op |-> "create", id |-> None, row |-> row,
                       before |-> rna_release]
           /\ ret' = done.error
    /\ UNCHANGED <<rna_note, rna_note_releases, DEV, requests>>

\* release.version = ...; release.is_public = ...;
\* release.save(modified=modified) of a stored release
ReleaseSave(id, version, is_public, now, modified) ==
    /\ LET row == [rna_release[id] EXCEPT !.version = version,
                                          !.is_public = is_public]
           done == release_save(db, id, row, now, modified)
       IN  /\ rna_release' = done.db.release
           /\ call' = [op |-> "save", id |-> id, row |-> row,
                       before |-> rna_release]
           /\ ret' = done.error
    /\ UNCHANGED <<rna_note, rna_note_releases, DEV, requests>>

InitStore ==
    /\ rna_release = <<>>
    /\ rna_note = <<>>
    /\ rna_note_releases = <<>>
    /\ DEV = FALSE
    /\ requests = [k \in Requests |-> Idle]
    /\ call = [op |-> "init"]
    /\ ret = None

\* the releases stored and those the running requests have still to store
Pending ==
    Len(rna_release)
    + Cardinality({k \in Requests :
                      requests[k].pc \in {"count", "notes", "save"}})

NextStore ==
    \/ \E product \in ReleaseProducts, version \in StoreVersions,
          now \in Clock :
           /\ Pending < MaxStored
           /\ ReleaseCreate(product, version, FALSE, now)
    \/ \E id \in 1..Len(rna_release), version \in StoreVersions :
           ReleaseSave(id, version, rna_release[id].is_public, 0, FALSE)
    \/ \E queryset \in Querysets(1) :
           /\ Pending < MaxStored
           /\ CopyFetch(1, queryset)
    \/ CopyLoop(1, Clock, {FALSE})

SpecStore == InitStore /\ [][NextStore]_vars

(***************************************************************************)
(* Copies and the equivalent release: two requests, both started before    *)
(* any copy is stored, copy the stored release, their steps in any order;  *)
(* releases that are not public are published, copies among them, with no  *)
(* new stamp; and the equivalent release of any stored release is looked   *)
(* up at any time, between the steps of the requests as well.              *)
(***************************************************************************)

s_c_0 == <<"c", ".", "0">>

CopyEquivKeys ==
    << [product |-> "Firefox", version |-> s_42_0],
       [product |-> "Firefox for Android", version |-> s_42_0],
       [product |-> "Firefox", version |-> s_c_0] >>

InitCopyEquiv ==
    /\ rna_release \in CopyTables(CopyEquivKeys, 1) \ {<<>>}
    /\ rna_note = <<>>
    /\ rna_note_releases = <<>>
    /\ DEV \in BOOLEAN
    /\ requests = [k \in Requests |-> Idle]
    /\ call = [op |-> "init"]
    /\ ret = None

\* no copy is stored yet
NoCopyStored ==
    \A r \in 1..Len(rna_release) :
        \E i \in DOMAIN CopyEquivKeys :
            rna_release[r].version = CopyEquivKeys[i].version

NextCopyEquiv ==
    \/ \E k \in Requests, queryset \in Querysets(1) :
           /\ NoCopyStored
           /\ CopyFetch(k, queryset)
    \/ \E k \in Requests : CopyLoop(k, Clock, {FALSE})
    \/ \E id \in 1..Len(rna_release) :
           /\ ~rna_release[id].is_public
           /\ ReleaseSave(id, rna_release[id].version, TRUE, 0, FALSE)
    \/ \E self \in 1..Len(rna_release), product \in ReleaseProducts :
           EquivalentReleaseForProduct(self, product)

SpecCopyEquiv == InitCopyEquiv /\ [][NextCopyEquiv]_vars

(***************************************************************************)
(* Saving stored releases and notes again and again, and new notes, with   *)
(* and without the keyword modified and with other arguments: positional   *)
(* arguments that are true or false, keywords Model.save has               *)
(* (force_insert, force_update, using, update_fields) and one it has not   *)
(* (db); the clock read as any value.                                      *)
(***************************************************************************)

\* Note(note=..., is_public=...).save(modified=modified): the other fields
\* have their defaults, and the object has no timestamp before the save
NoteCreate(note, is_public, now, modified) ==
    /\ LET row == [tag |-> "", note |-> note, sort_num |-> 0,
                   is_known_issue |-> FALSE, fixed_in_release |-> None,
                   is_public |-> is_public, modified |-> NULL]
           done == note_save(db, None, row, now, modified)
       IN  /\ rna_note' = done.db.note
           /\ call' = [op |-> "Note.create", id |-> None, row |-> row,
                       now |-> now, modified |-> modified,
                       before |-> rna_note]
           /\ ret' = done.error
    /\ UNCHANGED <<rna_release, rna_note_releases, DEV, requests>>

\* the new notes a run of saves stores at most
MaxSaved == 1

SaveArgs == {<<"x">>, <<"">>, <<"x", "y">>, <<"", "", "other">>,
             <<"", "", "", "">>}

\* the keywords of a save but modified
SaveKeywords ==
    {[k \in {} |-> TRUE], [db |-> "test"], [using |-> "default"],
     [using |-> "other"], [force_update |-> "x"],
     [force_insert |-> "x", force_update |-> "x"],
     [update_fields |-> <<>>], [update_fields |-> <<"version">>],
     [update_fields |-> <<"modified">>], [update_fields |-> <<"id">>],
     [using |-> "other", update_fields |-> <<>>]}

\* with modified=False and without modified, and modified=True alone
SaveKwargs ==
    SaveKeywords
    \cup {[modified |-> FALSE] @@ kw : kw \in SaveKeywords}
    \cup {[modified |-> TRUE]}

\* the keywords given together with positional arguments
SaveKwargsBeside ==
    {[k \in {} |-> TRUE], [modified |-> FALSE, using |-> "default"]}

\* the arguments of a save: keywords alone, or positional arguments and
\* keywords beside them
SaveCalls ==
    {<<<<>>, kwargs>> : kwargs \in SaveKwargs}
    \cup {<<args, kwargs>> : args \in SaveArgs, kwargs \in SaveKwargsBeside}

InitSave ==
    /\ rna_release \in {t \in CopyTables(<<CopyKeys[1]>>, 1) :
                           t # <<>> /\ t[1].is_public}
    /\ rna_note = <<>>
    /\ rna_note_releases = <<>>
    /\ DEV = FALSE
    /\ requests = [k \in Requests |-> Idle]
    /\ call = [op |-> "init"]
    /\ ret = None

NextSave ==
    \/ \E model \in {"Release", "Note"}, now \in Clock, c \in SaveCalls :
           \E id \in 1..Len(IF model = "Release" THEN rna_release
                             ELSE rna_note) :
               TimeStampedModelSave(model, id, now, c[1], c[2])
    \/ \E now \in Clock, modified \in BOOLEAN :
           /\ Len(rna_note) < MaxSaved
           /\ NoteCreate(<<"x">>, TRUE, now, modified)

SpecSave == InitSave /\ [][NextSave]_vars

(***************************************************************************)
(* Properties of Release.notes and Note.is_known_issue_for                 *)
(***************************************************************************)

NoDuplicates(seq) ==
    \A i, j \in 1..Len(seq) : seq[i] = seq[j] => i = j

\* the notes linked to the release that pass the public filter
LinkedNotes(self, public_only) ==
    {n \in 1..Len(rna_note) :
        /\ <<n, self>> \in Range(rna_note_releases)
        /\ public_only => rna_note[n].is_public}

\* an open known issue of the release, from the fields of the note
OpenIssue(n, self) ==
    rna_note[n].is_known_issue /\ rna_note[n].fixed_in_release # self

\* the string s begins with the string p
IsPrefix(p, s) ==
    /\ Len(p) <= Len(s)
    /\ \A i \in 1..Len(p) : s[i] = p[i]

\* a dot fix of the release, from the fields of the note
DotFix(n, self) ==
    /\ rna_note[n].tag = "Fixed"
    /\ IsPrefix(rna_release[self].version, rna_note[n].note)

TagPriority(tag) ==
    CASE tag = "New" -> 0
      [] tag = "Changed" -> 1
      [] tag = "HTML5" -> 2
      [] tag = "Feature" -> 3
      [] tag = "Language" -> 4
      [] tag = "Developer" -> 5
      [] tag = "Fixed" -> 6
      [] OTHER -> 0

\* C1: notes() partitions the linked notes that pass the public filter:
\* each is in exactly one of the two lists, once; known_issues holds exactly
\* the open known issues of the release and new_features the rest, the
\* known issues fixed in this release among them; no linked note gives two
\* empty lists.
C1_NotesPartition ==
    call.op = "notes" =>
        LET linked == LinkedNotes(call.self, call.public_only)
            open == {n \in linked : OpenIssue(n, call.self)}
        IN  /\ NoDuplicates(ret.new_features)
            /\ NoDuplicates(ret.known_issues)
            /\ Range(ret.new_features) \cap Range(ret.known_issues) = {}
            /\ Range(ret.new_features) \cup Range(ret.known_issues) = linked
            /\ Range(ret.known_issues) = open
            /\ Range(ret.new_features) = linked \ open
            /\ linked = {} =>
                   ret.new_features = <<>> /\ ret.known_issues = <<>>

\* a call that filtered a note out, returned an open known issue and
\* returned as a new feature a known issue fixed in the release
C1_Witness ==
    /\ call.op = "notes"
    /\ LinkedNotes(call.self, call.public_only)
           # LinkedNotes(call.self, FALSE)
    /\ ret.known_issues # <<>>
    /\ \E n \in Range(ret.new_features) :
           /\ rna_note[n].is_known_issue
           /\ rna_note[n].fixed_in_release = call.self

\* C2: in new_features every dot fix precedes every note that is no dot
\* fix, and the notes that are no dot fix are in the order the tag sort
\* left them in.
C2_DotFixesFirst ==
    call.op = "notes" =>
        LET nf == ret.new_features
            tagged ==
                sorted_by_tag(
                    SelectSeq(call.rows,
                              LAMBDA n : ~OpenIssue(n, call.self)))
        IN  /\ \A i, j \in 1..Len(nf) :
                   DotFix(nf[j], call.self) /\ ~DotFix(nf[i], call.self)
                       => j < i
            /\ SelectSeq(nf, LAMBDA n : ~DotFix(n, call.self))
                   = SelectSeq(tagged, LAMBDA n : ~DotFix(n, call.self))

\* a dot fix of the lowest sort_num first, before two other notes of which
\* one has a higher sort_num and an earlier tag
C2_Witness ==
    /\ call.op = "notes"
    /\ Len(ret.new_features) = 3
    /\ DotFix(ret.new_features[1], call.self)
    /\ ~DotFix(ret.new_features[2], call.self)
    /\ ~DotFix(ret.new_features[3], call.self)
    /\ rna_note[ret.new_features[1]].sort_num
           < rna_note[ret.new_features[2]].sort_num
    /\ rna_note[ret.new_features[2]].tag = ""

\* C3: the notes of new_features that are no dot fix are in ascending order
\* of tag priority (New 0, Changed 1, HTML5 2, Feature 3, Language 4,
\* Developer 5, Fixed 6, any other tag 0), and those of equal priority in
\* descending order of sort_num.
C3_TagPriorityThenSortNum ==
    call.op = "notes" =>
        LET nf == ret.new_features
        IN  \A i, j \in 1..Len(nf) :
                /\ i < j
                /\ ~DotFix(nf[i], call.self)
                /\ ~DotFix(nf[j], call.self)
                => \/ TagPriority(rna_note[nf[i]].tag)
                          < TagPriority(rna_note[nf[j]].tag)
                   \/ /\ TagPriority(rna_note[nf[i]].tag)
                             = TagPriority(rna_note[nf[j]].tag)
                      /\ rna_note[nf[i]].sort_num >= rna_note[nf[j]].sort_num

\* an untagged note, a Changed note and a Fixed note that is no dot fix, in
\* this order although the sort_num grows
C3_Witness ==
    /\ call.op = "notes"
    /\ Len(ret.new_features) = 3
    /\ \A i \in 1..3 : ~DotFix(ret.new_features[i], call.self)
    /\ rna_note[ret.new_features[1]].tag = ""
    /\ rna_note[ret.new_features[2]].tag = "Changed"
    /\ rna_note[ret.new_features[3]].tag = "Fixed"
    /\ rna_note[ret.new_features[1]].sort_num
           < rna_note[ret.new_features[2]].sort_num

\* C4: known_issues is in descending order of sort_num and nothing else:
\* of two known issues the one of the higher sort_num is first, and the
\* known issues are in the order the query returned them in, whatever
\* their tags and bodies.
C4_KnownIssuesBySortNum ==
    call.op = "notes" =>
        LET ki == ret.known_issues
        IN  /\ \A i, j \in 1..Len(ki) :
                   i < j =>
                       rna_note[ki[i]].sort_num >= rna_note[ki[j]].sort_num
            /\ ki = SelectSeq(call.rows, LAMBDA n : OpenIssue(n, call.self))

\* a Fixed known issue before an untagged one, and a dot fix last; two of
\* them of one sort_num, the one of the greater key first
C4_Witness ==
    /\ call.op = "notes"
    /\ Len(ret.known_issues) = 3
    /\ \E i, j \in 1..Len(ret.known_issues) :
           /\ i < j
           /\ ret.known_issues[i] > ret.known_issues[j]
           /\ rna_note[ret.known_issues[i]].sort_num
                  = rna_note[ret.known_issues[j]].sort_num
    /\ rna_note[ret.known_issues[1]].tag = "Fixed"
    /\ rna_note[ret.known_issues[2]].tag = ""
    /\ DotFix(ret.known_issues[3], call.self)
    /\ rna_note[ret.known_issues[1]].sort_num
           > rna_note[ret.known_issues[3]].sort_num

\* C5: notes(public_only=True) returns no note that is not public, in
\* either list; notes(public_only=False) returns every linked note, the
\* non-public ones too.
C5_PublicOnly ==
    call.op = "notes" =>
        LET returned == Range(ret.new_features) \cup Range(ret.known_issues)
        IN  /\ call.public_only =>
                   \A n \in returned : rna_note[n].is_public
            /\ ~call.public_only =>
                   returned = LinkedNotes(call.self, FALSE)

\* a public_only call on a release with a non-public note, which returned
\* notes in both lists
C5_Witness ==
    /\ call.op = "notes"
    /\ call.public_only
    /\ \E n \in LinkedNotes(call.self, FALSE) : ~rna_note[n].is_public
    /\ ret.new_features # <<>>
    /\ ret.known_issues # <<>>

\* C6: is_known_issue_for(release) is false when is_known_issue is false,
\* false when fixed_in_release is the release, and true for a known issue
\* fixed in another release or in none.
C6_IsKnownIssueFor ==
    call.op = "is_known_issue_for" =>
        LET n == rna_note[call.note]
        IN  /\ ~n.is_known_issue => ret = FALSE
            /\ n.fixed_in_release = call.release => ret = FALSE
            /\ n.is_known_issue /\ n.fixed_in_release # call.release
                   => ret = TRUE
            /\ n.is_known_issue /\ n.fixed_in_release = None => ret = TRUE

\* a known issue fixed in no release, asked about a release
C6_Witness ==
    /\ call.op = "is_known_issue_for"
    /\ rna_note[call.note].is_known_issue
    /\ rna_note[call.note].fixed_in_release = None
    /\ ret = TRUE

(***************************************************************************)
(* Properties of Release.equivalent_release_for_product                    *)
(***************************************************************************)

\* where the dots of a version are
Dots(v) == {i \in 1..Len(v) : v[i] = "."}

Least(S) == CHOOSE i \in S : \A j \in S : i <= j

\* the number of dot-separated segments of a version
SegmentCount(v) == Cardinality(Dots(v)) + 1

\* a version up to its first dot
MajorPart(v) ==
    IF Dots(v) = {} THEN v ELSE SubSeq(v, 1, Least(Dots(v)) - 1)

\* the second dot-separated segment of a version that has a dot
MinorSegment(v) ==
    LET later == {i \in Dots(v) : i > Least(Dots(v))}
    IN  SubSeq(v, Least(Dots(v)) + 1,
               IF later = {} THEN Len(v) ELSE Least(later) - 1)

\* the releases of the product with the channel and the major version of
\* self, whatever their visibility
Matching(self, product) ==
    {r \in 1..Len(rna_release) :
        /\ rna_release[r].product = product
        /\ rna_release[r].channel = rna_release[self].channel
        /\ IsPrefix(MajorPart(rna_release[self].version) \o <<".">>,
                    rna_release[r].version)}

\* those of them the lookup may return
Candidates(self, product) ==
    {r \in Matching(self, product) : DEV \/ rna_release[r].is_public}

MinorOf(r) == MinorSegment(rna_release[r].version)

\* the candidates no other candidate has a greater second segment than
GreatestMinor(C) ==
    {c \in C : \A d \in C : ~StrLess(MinorOf(c), MinorOf(d))}

\* C7: a release that equivalent_release_for_product returns has the asked
\* product, the channel of the calling release and a version that starts
\* with the caller's major version and a dot, hence the same major version.
C7_EquivalentMatches ==
    call.op = "equivalent_release_for_product" /\ ret # None =>
        LET self == rna_release[call.self]
            found == rna_release[ret]
        IN  /\ found.product = call.product
            /\ found.channel = self.channel
            /\ IsPrefix(MajorPart(self.version) \o <<".">>, found.version)
            /\ MajorPart(found.version) = MajorPart(self.version)

\* another release is returned, while a visible release of the asked
\* product and channel has another major version that begins like the
\* caller's
C7_Witness ==
    /\ call.op = "equivalent_release_for_product"
    /\ ret # None
    /\ ret # call.self
    /\ \E r \in 1..Len(rna_release) :
           /\ rna_release[r].product = call.product
           /\ rna_release[r].channel = rna_release[call.self].channel
           /\ DEV \/ rna_release[r].is_public
           /\ MajorPart(rna_release[r].version)
                  # MajorPart(rna_release[call.self].version)
           /\ IsPrefix(MajorPart(rna_release[r].version),
                       rna_release[call.self].version)

\* C8: without settings.DEV the lookup returns no release that is not
\* public, and None when every matching release is non-public; with
\* settings.DEV the non-public matching releases are eligible: a matching
\* release is returned whenever there is one, and none of them, public or
\* not, has a greater second segment.
C8_EquivalentVisibility ==
    call.op = "equivalent_release_for_product" =>
        LET matching == Matching(call.self, call.product)
        IN  /\ ~DEV /\ ret # None => rna_release[ret].is_public
            /\ ~DEV /\ (\A m \in matching : ~rna_release[m].is_public)
                   => ret = None
            /\ DEV /\ matching # {} =>
                   /\ ret \in matching
                   /\ \A m \in matching : ~StrLess(MinorOf(ret), MinorOf(m))

\* without settings.DEV a public release is returned although a non-public
\* matching release has a greater second segment
C8_Witness ==
    /\ call.op = "equivalent_release_for_product"
    /\ ~DEV
    /\ ret # None
    /\ \E m \in Matching(call.self, call.product) :
           /\ ~rna_release[m].is_public
           /\ StrLess(MinorOf(ret), MinorOf(m))

\* C9: the second segment outweighs the number of segments: a candidate
\* whose second segment is smaller, as a string, than another candidate's
\* is not returned, however many segments it has.
C9_MinorBeforeSegmentCount ==
    call.op = "equivalent_release_for_product" =>
        \A a, b \in Candidates(call.self, call.product) :
            StrLess(MinorOf(b), MinorOf(a)) => ret # b

\* the release returned has fewer segments than a candidate of a smaller
\* second segment
C9_Witness ==
    /\ call.op = "equivalent_release_for_product"
    /\ ret # None
    /\ \E b \in Candidates(call.self, call.product) :
           /\ StrLess(MinorOf(b), MinorOf(ret))
           /\ SegmentCount(rna_release[b].version)
                  > SegmentCount(rna_release[ret].version)

\* C10: the release returned is one of the candidates of the greatest
\* second segment and none of these has more segments, and the same holds
\* of the choice made from the candidates in any order the storage could
\* return them in.
C10_MostSegmentsAmongGreatestMinor ==
    call.op = "equivalent_release_for_product" =>
        LET C == Candidates(call.self, call.product)
            Best(r) ==
                /\ r \in GreatestMinor(C)
                /\ \A c \in GreatestMinor(C) :
                       SegmentCount(rna_release[c].version)
                           <= SegmentCount(rna_release[r].version)
        IN  C # {} =>
                /\ Best(ret)
                /\ \A releases \in Orders(C) :
                       Best(first_by_minor_version(releases))

\* the release returned has more segments than a candidate of the same
\* second segment
C10_Witness ==
    /\ call.op = "equivalent_release_for_product"
    /\ ret # None
    /\ \E c \in Candidates(call.self, call.product) :
           /\ MinorOf(c) = MinorOf(ret)
           /\ SegmentCount(rna_release[c].version)
                  < SegmentCount(rna_release[ret].version)

\* a decimal numeral: digits only, at least one
IsNumeral(s) ==
    /\ s # <<>>
    /\ \A i \in 1..Len(s) : Ord(s[i]) \in 48..57

\* the number a decimal numeral denotes
RECURSIVE NumeralValue(_)
NumeralValue(s) ==
    IF s = <<>> THEN 0
    ELSE 10 * NumeralValue(SubSeq(s, 1, Len(s) - 1)) + (Ord(s[Len(s)]) - 48)

\* C11: when the second segment of every candidate is a decimal numeral, no
\* candidate has a second segment that is greater, as a number, than that of
\* the release returned.
C11_HighestNumericMinor ==
    call.op = "equivalent_release_for_product" =>
        LET C == Candidates(call.self, call.product)
        IN  /\ C # {}
            /\ \A c \in C : IsNumeral(MinorOf(c))
            => /\ ret \in C
               /\ \A c \in C :
                      NumeralValue(MinorOf(c)) <= NumeralValue(MinorOf(ret))

\* C12: when no release passes the filter (the prefix, the channel, the
\* product and, without settings.DEV, is_public), the lookup returns None
\* and raises nothing.
C12_NoneWhenNoMatch ==
    call.op = "equivalent_release_for_product" =>
        (Candidates(call.self, call.product) = {} => ret = None)

\* None is returned although the asked product has a release of the major
\* version in another channel and a non-public one in the caller's channel
C12_Witness ==
    /\ call.op = "equivalent_release_for_product"
    /\ ret = None
    /\ \E m \in Matching(call.self, call.product) :
           ~rna_release[m].is_public
    /\ \E r \in 1..Len(rna_release) :
           /\ rna_release[r].product = call.product
           /\ rna_release[r].is_public
           /\ rna_release[r].channel # rna_release[call.self].channel
           /\ MajorPart(rna_release[r].version)
                  = MajorPart(rna_release[call.self].version)

\* C13: the lookup raises nothing, whatever the stored versions and the
\* caller's version are, versions without a dot among them; a release whose
\* version has no dot is never returned, and a release whose second segment
\* is empty is returned only when no candidate has a second segment that is
\* not empty.
C13_NoRaiseOnMissingMinor ==
    call.op = "equivalent_release_for_product" =>
        /\ ret # IndexError
        /\ ret # None =>
               /\ Dots(rna_release[ret].version) # {}
               /\ MinorOf(ret) = <<>> =>
                      \A c \in Candidates(call.self, call.product) :
                          MinorOf(c) = <<>>

\* a caller whose version has no dot asks for its own product, and a
\* release of a second segment is returned although a candidate has an empty
\* second segment
C13_Witness ==
    /\ call.op = "equivalent_release_for_product"
    /\ Dots(rna_release[call.self].version) = {}
    /\ rna_release[call.self].product = call.product
    /\ DEV \/ rna_release[call.self].is_public
    /\ ret # None
    /\ ret # IndexError
    /\ MinorOf(ret) # <<>>
    /\ \E c \in Candidates(call.self, call.product) : MinorOf(c) = <<>>

\* what a wrapper has to do for a release of the product `from`: look the
\* release of the product `to` up, once, and return what the lookup returns;
\* for a release of any other product, return None without a lookup
WrapperContract(from, to) ==
    IF rna_release[call.self].product = from
    THEN /\ call.lookups = <<to>>
         /\ ret = equivalent_release_for_product(call.self, to)
         /\ ret # None => rna_release[ret].product = to
         /\ ret = None <=> Candidates(call.self, to) = {}
    ELSE /\ call.lookups = <<>>
         /\ ret = None

\* C14: equivalent_android_release() is
\* equivalent_release_for_product('Firefox for Android') on a release of the
\* product 'Firefox' and None, without a lookup, on a release of any other
\* product; equivalent_desktop_release() is
\* equivalent_release_for_product('Firefox') on a release of the product
\* 'Firefox for Android' and None, without a lookup, on any other.
C14_AndroidDesktopWrappers ==
    /\ call.op = "equivalent_android_release" =>
           WrapperContract("Firefox", "Firefox for Android")
    /\ call.op = "equivalent_desktop_release" =>
           WrapperContract("Firefox for Android", "Firefox")

\* the Android release of a Firefox release is found, in a table where a
\* release of a third product would find one too if it looked
C14_Witness ==
    /\ call.op = "equivalent_android_release"
    /\ rna_release[call.self].product = "Firefox"
    /\ ret # None
    /\ \E r \in 1..Len(rna_release) :
           /\ rna_release[r].product
                  \notin {"Firefox", "Firefox for Android"}
           /\ Candidates(r, "Firefox for Android") # {}

(***************************************************************************)
(* Properties of Release.major_version and Release.get_bug_search_url      *)
(***************************************************************************)

\* C15: major_version() is the part of the version before its first dot,
\* and the whole version when it has no dot; the characters are those of
\* the version, unchanged.
C15_MajorVersion ==
    call.op = "major_version" =>
        LET version == rna_release[call.self].version
        IN  /\ ret = MajorPart(version)
            /\ IsPrefix(ret, version)
            /\ Dots(ret) = {}
            /\ Dots(version) = {} => ret = version
            /\ Dots(version) # {} => version[Len(ret) + 1] = "."

\* the major version of a version of two dots
C15_Witness ==
    /\ call.op = "major_version"
    /\ Cardinality(Dots(rna_release[call.self].version)) = 2
    /\ ret # <<>>
    /\ ret # rna_release[call.self].version

\* the URL the Thunderbird template gives for a major version
ThunderbirdUrl(major) ==
    <<"https://bugzilla.mozilla.org/buglist.cgi?classification=Client%20Software&query_format=advanced&bug_status=RESOLVED&bug_status=VERIFIED&bug_status=CLOSED&target_milestone=Thunderbird%20">>
    \o major \o <<".0&product=Thunderbird&resolution=FIXED">>

\* the URL the general template gives for a major version
GeneralUrl(major) ==
    <<"https://bugzilla.mozilla.org/buglist.cgi?j_top=OR&f1=target_milestone&o3=equals&v3=Firefox%20">>
    \o major
    \o <<"&o1=equals&resolution=FIXED&o2=anyexact&query_format=advanced&f3=target_milestone&f2=cf_status_firefox">>
    \o major
    \o <<"&bug_status=RESOLVED&bug_status=VERIFIED&bug_status=CLOSED&v1=mozilla">>
    \o major
    \o <<"&v2=fixed%2Cverified&limit=0">>

\* C16: get_bug_search_url() returns bug_search_url as it is when it is not
\* empty; otherwise the Thunderbird template for the product Thunderbird and
\* the general template for any other product, filled with the major
\* version only: two releases without a bug_search_url, both Thunderbird or
\* both not, of the same major version get the same URL.
C16_BugSearchUrl ==
    call.op = "get_bug_search_url" =>
        LET self == rna_release[call.self]
        IN  /\ self.bug_search_url # <<>> => ret = self.bug_search_url
            /\ self.bug_search_url = <<>> =>
                   /\ self.product = "Thunderbird" =>
                          ret = ThunderbirdUrl(MajorPart(self.version))
                   /\ self.product # "Thunderbird" =>
                          ret = GeneralUrl(MajorPart(self.version))
                   /\ \A o \in 1..Len(rna_release) :
                          /\ rna_release[o].bug_search_url = <<>>
                          /\ (rna_release[o].product = "Thunderbird")
                                 = (self.product = "Thunderbird")
                          /\ MajorPart(rna_release[o].version)
                                 = MajorPart(self.version)
                          => get_bug_search_url(o) = ret

\* the URL of a release without a bug_search_url, in a table with another
\* version of the same major version and product class and with no
\* bug_search_url either
C16_Witness ==
    /\ call.op = "get_bug_search_url"
    /\ rna_release[call.self].bug_search_url = <<>>
    /\ \E o \in 1..Len(rna_release) :
           /\ o # call.self
           /\ rna_release[o].bug_search_url = <<>>
           /\ rna_release[o].version # rna_release[call.self].version
           /\ MajorPart(rna_release[o].version)
                  = MajorPart(rna_release[call.self].version)
           /\ rna_release[o].product # rna_release[call.self].product
           /\ rna_release[o].product # "Thunderbird"
           /\ rna_release[call.self].product # "Thunderbird"

(***************************************************************************)
(* Properties of ReleaseAdmin.copy_releases                                *)
(***************************************************************************)

\* the copies a call made: the releases of the queryset whose copy ended
\* without an error
Copied == {i \in 1..Len(call.runs) : call.runs[i].error = None}

\* the key of the copy the i-th run stored
CopyOf(i) == call.runs[i].id

\* the version w is a name copy_releases gives to a copy of the version v:
\* copy-v, or copyN-v with a decimal numeral N
IsCopyName(w, v) ==
    \/ w = <<"c", "o", "p", "y", "-">> \o v
    \/ /\ Len(w) > Len(v) + 5
       /\ SubSeq(w, 1, 4) = <<"c", "o", "p", "y">>
       /\ SubSeq(w, Len(w) - Len(v), Len(w)) = <<"-">> \o v
       /\ IsNumeral(SubSeq(w, 5, Len(w) - Len(v) - 1))

\* how many copies of the release the table d had, by their names
CopiesOf(d, release) ==
    Cardinality({r \in 1..Len(d.release) :
                    /\ d.release[r].product = d.release[release].product
                    /\ IsCopyName(d.release[r].version,
                                  d.release[release].version)})

\* C17: a copy of a release of version V is named by the number k of copies
\* of V the product had already: copy-V when k = 0, and copy(k+1)-V when
\* k >= 1, so copy2-V after one copy.
C17_CopyNamedByCopies ==
    call.op = "copy_releases" =>
        \A i \in Copied :
            LET before == call.runs[i].before
                V == before.release[call.runs[i].source].version
                k == CopiesOf(before, call.runs[i].source)
            IN  rna_release[CopyOf(i)].version =
                    IF k = 0 THEN <<"c", "o", "p", "y", "-">> \o V
                    ELSE <<"c", "o", "p", "y">> \o str(k + 1)
                         \o <<"-">> \o V

\* the notes the source of the i-th run was linked to when its copy started
NotesOfSource(i) ==
    {n \in 1..Len(rna_note) :
        <<n, call.runs[i].source>> \in Range(call.runs[i].before.links)}

\* C18: after a call of copy_releases that ended without an error, the copy
\* of each release is not public, whether its source is or not, and is
\* linked to exactly the notes its source was linked to when the copy
\* started; each of these notes has as modified the clock reading of the
\* update of the copy, of the last copy of the call that holds the note.
C18_CopyUnpublishedWithNotes ==
    call.op = "copy_releases" /\ ret = None =>
        \A i \in 1..Len(call.runs) :
            /\ i \in Copied
            /\ rna_release[CopyOf(i)].is_public = FALSE
            /\ {n \in 1..Len(rna_note) :
                   <<n, CopyOf(i)>> \in Range(rna_note_releases)} = NotesOfSource(i)
            /\ \A n \in NotesOfSource(i) :
                   LET last == CHOOSE j \in i..Len(call.runs) :
                                   /\ n \in NotesOfSource(j)
                                   /\ \A l \in (j + 1)..Len(call.runs) :
                                          n \notin NotesOfSource(l)
                   IN  rna_note[n].modified = call.runs[last].t_update

\* two releases copied in one call, the first of them public and linked to
\* two notes of which the second release has one, the clock read at
\* another value for the save and the update of the first copy, and set
\* back before the update of the second
C18_Witness ==
    /\ call.op = "copy_releases"
    /\ ret = None
    /\ Len(call.runs) = 2
    /\ rna_release[call.runs[1].source].is_public
    /\ Cardinality(NotesOfSource(1)) = 2
    /\ Cardinality(NotesOfSource(2)) = 1
    /\ NotesOfSource(2) \subseteq NotesOfSource(1)
    /\ call.runs[1].t_save < call.runs[1].t_update
    /\ call.runs[2].t_update < call.runs[1].t_update

\* C19: the copy of a release is stored whole or not at all: when the copy
\* of a release ended with an error no release was stored for it, and every
\* copy that is stored is linked to all the notes its source was linked to.
C19_CopyAtomic ==
    call.op = "copy_releases" =>
        \A i \in 1..Len(call.runs) :
            IF call.runs[i].error # None
            THEN Len(rna_release) = Len(call.runs[i].before.release)
            ELSE {n \in 1..Len(rna_note) :
                     <<n, CopyOf(i)>> \in Range(rna_note_releases)}
                     = NotesOfSource(i)

(***************************************************************************)
(* Properties of the table of releases                                     *)
(***************************************************************************)

\* the table holds the pair of product and version of the row in a row of
\* another key than id
HoldsPair(table, id, row) ==
    \E r \in 1..Len(table) :
        /\ r # id
        /\ table[r].product = row.product
        /\ table[r].version = row.version

\* C20: in every state reached by creating, saving and copying releases no
\* two stored releases have the same product and version; a creation or a
\* save of a row whose pair another release holds ends with an error and
\* leaves the table as it was, and so does the save of a copy whose name
\* is taken, when the copy is saved.
C20_UniqueProductVersion ==
    /\ \A r \in 1..Len(rna_release) :
           ~HoldsPair(rna_release, r, rna_release[r])
    /\ call.op \in {"create", "save"} =>
           IF HoldsPair(call.before, call.id, call.row)
           THEN ret = IntegrityError /\ rna_release = call.before
           ELSE ret = None
    /\ call.op = "copy_releases" /\ ret = IntegrityError =>
           /\ rna_release = call.before
           /\ HoldsPair(call.before, None, call.runs[Len(call.runs)].copy)

\* the copy of a release is refused because a release got the name of the
\* copy after the request had counted the versions
C20_Witness ==
    /\ call.op = "copy_releases"
    /\ ret = IntegrityError
    /\ LET run == call.runs[Len(call.runs)]
       IN  /\ ~HoldsPair(run.before.release, None, run.copy)
           /\ HoldsPair(rna_release, None, run.copy)

(***************************************************************************)
(* Properties of TimeStampedModel.save                                     *)
(***************************************************************************)

\* C21: save() sets modified of the object to the time of the call unless
\* it is called with modified=False, and then modified is as it was; either
\* way the save of the base class gets the positional arguments as they
\* are and the keywords without modified, and no other field of the object
\* changes.  What is stored follows from what the save of the base class
\* does with the arguments it got: the stored row has modified of the
\* object when that save raised nothing and wrote the field, which it does
\* not for an update_fields without it, and modified is as before
\* otherwise; nothing else of the row changes.  A new note is stored with
\* the time of its save; saved with modified=False it keeps having no
\* timestamp, and the database refuses the row.
C21_SaveModified ==
    /\ call.op = "TimeStampedModel.save" =>
        LET suppressed == /\ "modified" \in DOMAIN call.kwargs
                          /\ call.kwargs["modified"] = FALSE
            old == call.before[call.id]
            object == call.object
            table == IF call.model = "Release" THEN rna_release ELSE rna_note
            listed == \/ Len(call.args) >= 4
                      \/ "update_fields" \in DOMAIN call.kwargs
            names == IF /\ Len(call.args) < 4
                        /\ "update_fields" \in DOMAIN call.kwargs
                     THEN Range(call.kwargs["update_fields"]) ELSE {}
            written == ret = None /\ (~listed \/ "modified" \in names)
        IN  /\ ~suppressed => object.modified = call.now
            /\ suppressed => object.modified = old.modified
            /\ object = [old EXCEPT !.modified = object.modified]
            /\ call.super_args = call.args
            /\ DOMAIN call.super_kwargs = DOMAIN call.kwargs \ {"modified"}
            /\ \A k \in DOMAIN call.super_kwargs :
                   call.super_kwargs[k] = call.kwargs[k]
            /\ table[call.id] = IF written THEN object ELSE old
            /\ Len(table) = Len(call.before)
            /\ \A r \in 1..Len(table) :
                   r # call.id => table[r] = call.before[r]
    /\ call.op = "Note.create" =>
        /\ call.modified =>
               /\ ret = None
               /\ rna_note = Append(call.before,
                                    [call.row EXCEPT !.modified = call.now])
        /\ ~call.modified =>
               /\ ret = IntegrityError
               /\ rna_note = call.before

\* a save with modified=False, positional arguments and another keyword,
\* of a release that was saved at another time, which the save of the base
\* class stored
C21_Witness ==
    /\ call.op = "TimeStampedModel.save"
    /\ call.model = "Release"
    /\ "modified" \in DOMAIN call.kwargs
    /\ call.kwargs["modified"] = FALSE
    /\ "using" \in DOMAIN call.kwargs
    /\ call.args # <<>>
    /\ ret = None
    /\ rna_release[call.id].modified > 0
    /\ rna_release[call.id].modified # call.now

\* what notes() gives for the arguments of the last call in this state,
\* its query run by the plan
NotesAgain(plan) ==
    LET notes == notes_queryset(call.self, call.public_only, plan)
    IN  [new_features |-> notes_new_features(notes, call.self),
         known_issues |-> notes_known_issues(notes, call.self)]

C23_UntaggedFirst ==
    call.op = "notes" =>
        LET nf == ret.new_features
        IN  \A i, j \in 1..Len(nf) :
                /\ rna_note[nf[i]].tag = ""
                /\ rna_note[nf[j]].tag # ""
                /\ ~DotFix(nf[j], call.self)
                => i < j

\* the notes linked to the release are A, a known issue fixed in another
\* release, B, a known issue fixed in this release, C, tagged Changed, and
\* D, tagged Fixed with a body that starts with the version of the
\* release; A and B have no tag
Scenario(self, A, B, C, D) ==
    /\ LinkedNotes(self, FALSE) = {A, B, C, D}
    /\ Cardinality({A, B, C, D}) = 4
    /\ rna_note[A].is_known_issue /\ rna_note[A].tag = ""
    /\ rna_note[A].fixed_in_release \notin {None, self}
    /\ rna_note[B].is_known_issue /\ rna_note[B].tag = ""
    /\ rna_note[B].fixed_in_release = self
    /\ ~rna_note[C].is_known_issue /\ rna_note[C].tag = "Changed"
    /\ ~rna_note[D].is_known_issue /\ rna_note[D].tag = "Fixed"
    /\ IsPrefix(rna_release[self].version, rna_note[D].note)

\* C24 as stated: for the notes A, B, C and D, notes() returns A alone as
\* known issue and the new features D, C, B in this order.
C24_ScenarioAsStated ==
    call.op = "notes" =>
        \A A, B, C, D \in 1..Len(rna_note) :
            Scenario(call.self, A, B, C, D) =>
                /\ ret.known_issues = <<A>>
                /\ ret.new_features = <<D, C, B>>

\* C24: for the notes A, B, C and D, notes() returns A alone as known issue
\* and the new features D, B, C in this order: the dot fix first whatever
\* its sort_num, then the untagged B, then C, tagged Changed.
C24_Scenario ==
    call.op = "notes" =>
        \A A, B, C, D \in 1..Len(rna_note) :
            Scenario(call.self, A, B, C, D) =>
                /\ ret.known_issues = <<A>>
                /\ ret.new_features = <<D, B, C>>

\* the scenario with D the last note the query returned and C of a higher
\* sort_num than B and D
C24_Witness ==
    /\ call.op = "notes"
    /\ \E A, B, C, D \in 1..Len(rna_note) :
           /\ Scenario(call.self, A, B, C, D)
           /\ call.rows[Len(call.rows)] = D
           /\ rna_note[D].sort_num < rna_note[C].sort_num
           /\ rna_note[B].sort_num < rna_note[C].sort_num
           /\ ret.new_features = <<D, B, C>>
           /\ ret.known_issues = <<A>>

(***************************************************************************)
(* Properties of sequences of copies                                       *)
(***************************************************************************)

\* C25: from a table of unique (product, version) pairs with no version
\* that begins with copy, whatever releases are copied in whatever order,
\* copies among them, no copy is refused as a duplicate: the version each
\* copy gets is one its product did not have when the copy started.
C25_CopiesNeverCollide ==
    call.op = "copy_releases" =>
        /\ ret # IntegrityError
        /\ \A i \in 1..Len(call.runs) :
               /\ call.runs[i].error = None
               /\ ~HoldsPair(call.runs[i].before.release, None,
                             rna_release[CopyOf(i)])

\* the third copy of a release stored
C25_Witness ==
    /\ call.op = "copy_releases"
    /\ ret = None
    /\ \E i \in Copied :
           CopiesOf(call.runs[i].before, call.runs[i].source) >= 2

\* the stored state after the i-th run of the call
AfterRun(i) ==
    IF i < Len(call.runs) THEN call.runs[i + 1].before ELSE db

\* C26: the copy of a release adds one release to the table and changes no
\* release that was stored: the source has the version, the visibility and
\* the note links it had, and so has every other release.
C26_SourceUntouched ==
    call.op = "copy_releases" /\ ret = None =>
        \A i \in 1..Len(call.runs) :
            LET before == call.runs[i].before
                after == AfterRun(i)
            IN  /\ Len(after.release) = Len(before.release) + 1
                /\ \A r \in 1..Len(before.release) :
                       /\ after.release[r] = before.release[r]
                       /\ SelectSeq(after.links, LAMBDA l : l[2] = r)
                              = SelectSeq(before.links, LAMBDA l : l[2] = r)

\* a public release with a note copied with another release in one call
C26_Witness ==
    /\ call.op = "copy_releases"
    /\ ret = None
    /\ Len(call.runs) = 2
    /\ \E i \in 1..Len(call.runs) :
           /\ rna_release[call.runs[i].source].is_public
           /\ NotesOfSource(i) # {}
           /\ ~rna_release[CopyOf(i)].is_public
           /\ rna_release[CopyOf(i)].version
                  # rna_release[call.runs[i].source].version

(***************************************************************************)
(* Properties of the two sorts of equivalent_release_for_product           *)
(***************************************************************************)

\* the release a is below the release b under the key (second segment as a
\* string, number of segments, whole version as a string), compared part by
\* part
CompositeLess(a, b) ==
    LET va == rna_release[a].version
        vb == rna_release[b].version
    IN  \/ StrLess(MinorSegment(va), MinorSegment(vb))
        \/ /\ MinorSegment(va) = MinorSegment(vb)
           /\ SegmentCount(va) < SegmentCount(vb)
        \/ /\ MinorSegment(va) = MinorSegment(vb)
           /\ SegmentCount(va) = SegmentCount(vb)
           /\ StrLess(va, vb)

\* C27: the two sorts of equivalent_release_for_product, made on the
\* candidates in descending order of version, return the one candidate that
\* every other candidate is below under the key (second segment as a
\* string, number of segments, whole version string); the set of the
\* candidates determines the release returned.
C27_CompositeKey ==
    call.op = "equivalent_release_for_product" =>
        LET C == Candidates(call.self, call.product)
        IN  IF C = {} THEN ret = None
            ELSE /\ ret \in C
                 /\ \A c \in C \ {ret} : CompositeLess(c, ret)

\* the release returned has the second segment and the number of segments
\* of another candidate that is stored before it, and the greater version
C27_Witness ==
    /\ call.op = "equivalent_release_for_product"
    /\ ret \in Candidates(call.self, call.product)
    /\ \E c \in Candidates(call.self, call.product) :
           /\ c < ret
           /\ MinorOf(c) = MinorOf(ret)
           /\ SegmentCount(rna_release[c].version)
                  = SegmentCount(rna_release[ret].version)
           /\ StrLess(rna_release[c].version, rna_release[ret].version)

(***************************************************************************)
(* Properties of the dot fixes of Release.notes                            *)
(***************************************************************************)

\* C28: a Fixed note is pulled to the top of new_features exactly when the
\* version of the release is a prefix of its body, as a string: a body that
\* names a longer version (42.0.1 for the release 42.0) is pulled, every
\* Fixed note is when the version is empty, and a note of another tag never
\* is: the notes pulled precede all others, and the others are in the order
\* of their tags.
C28_DotFixPlainPrefix ==
    call.op = "notes" =>
        LET nf == ret.new_features
            version == rna_release[call.self].version
            Pulled(n) == /\ rna_note[n].tag = "Fixed"
                         /\ IsPrefix(version, rna_note[n].note)
        IN  /\ \A i, j \in 1..Len(nf) :
                   Pulled(nf[i]) /\ ~Pulled(nf[j]) => i < j
            /\ \A n \in Range(nf) :
                   /\ rna_note[n].tag = "Fixed"
                   /\ version = <<>> \/ IsPrefix(version \o <<".", "1">>,
                                                 rna_note[n].note)
                   => Pulled(n)
            /\ \A i, j \in 1..Len(nf) :
                   i < j /\ ~Pulled(nf[i]) /\ ~Pulled(nf[j])
                       => TagPriority(rna_note[nf[i]].tag)
                              <= TagPriority(rna_note[nf[j]].tag)

\* for the release of the empty version, a Fixed note whose body names no
\* version is first, before a Changed note of a higher sort_num
C28_Witness ==
    /\ call.op = "notes"
    /\ rna_release[call.self].version = <<>>
    /\ Len(ret.new_features) = 2
    /\ rna_note[ret.new_features[1]].tag = "Fixed"
    /\ rna_note[ret.new_features[1]].note = <<"x">>
    /\ rna_note[ret.new_features[2]].tag = "Changed"
    /\ rna_note[ret.new_features[1]].sort_num
           < rna_note[ret.new_features[2]].sort_num

(***************************************************************************)
(* Properties of copies and the equivalent release                         *)
(***************************************************************************)

\* the version is that of a copy: it begins with copy
CopyVersion(v) == IsPrefix(<<"c", "o", "p", "y">>, v)

\* C29: a lookup of the equivalent release made on a release whose version
\* does not begin with copy never returns a copy, whatever was copied and
\* published before: the version of a copy does not start with the major
\* version of the caller and a dot.
C29_CopyNeverEquivalent ==
    call.op = "equivalent_release_for_product"
    /\ ~CopyVersion(rna_release[call.self].version) =>
        /\ ret \in 1..Len(rna_release) =>
               ~CopyVersion(rna_release[ret].version)
        /\ \A r \in 1..Len(rna_release) :
               CopyVersion(rna_release[r].version) =>
                   ~IsPrefix(MajorPart(rna_release[call.self].version)
                                 \o <<".">>,
                             rna_release[r].version)

\* a release is returned to a release that is no copy while a published
\* copy of the asked product and of the version of the caller is stored
C29_Witness ==
    /\ call.op = "equivalent_release_for_product"
    /\ ~DEV
    /\ ~CopyVersion(rna_release[call.self].version)
    /\ ret \in 1..Len(rna_release)
    /\ \E r \in 1..Len(rna_release) :
           /\ IsCopyName(rna_release[r].version,
                         rna_release[call.self].version)
           /\ rna_release[r].product = call.product
           /\ rna_release[r].channel = rna_release[call.self].channel
           /\ rna_release[r].is_public

====
